---- MODULE Spec2Model ----
(***************************************************************************)
(* Order-book state engine of chocolate_road (src/src/orderbook/mod.rs):   *)
(* Book::initialize builds the dense tick-indexed state from a snapshot,   *)
(* Book::new_state applies batches of (tick, size, is_bid) updates.        *)
(*                                                                         *)
(* Prices are counted in price quanta; tick_size is the number of quanta   *)
(* in one tick, so that (price / tick_size) as u64 is price \div tick_size.*)
(* Sizes are f32 in the source; here 0 stands for 0.0 and 1..MaxSize for   *)
(* distinct positive sizes.  Option<f32> is <<>> (None) or <<s>> (Some(s)).*)
(*                                                                         *)
(* The persistence worker (src/src/listener.rs) with the archive worker    *)
(* (src/src/uploader.rs) and the exchange feed adapters                    *)
(* (src/src/exchange/gdax_l2.rs, bitmex.rs) are state machines of their    *)
(* own, WorkerSpec and AdapterSpec, over their own variables; so are the   *)
(* tick-store client (src/src/orderbook/tectonic.rs), ClientSpec, and the  *)
(* conversions of the adapters (get_asset_pair, the decoding of a frame    *)
(* into its batch), CodecSpec.  Each specification leaves the variables of *)
(* the others at rest.                                                     *)
(***************************************************************************)
EXTENDS Integers, Sequences, FiniteSets, TLC

\* ---------------------------------------------------------------- bounds
\* Length of the state vector (ticks 0..NumTicks-1 are in range).
NumTicks == 3
\* Largest positive size.
MaxSize == 2
\* Largest number of levels on one side of a snapshot.
MaxLevels == 2
\* Largest number of updates in one new_state batch.
MaxBatch == 2

\* Book::tick_size, in price quanta.
tick_size == 2

None == <<>>
Some(s) == <<s>>
IsSome(o) == o # None
Unwrap(o) == o[1]

Ticks == 0 .. (NumTicks - 1)
\* Ticks an update may name: one of them (NumTicks) is past the end of state.
UpdateTicks == 0 .. NumTicks
Sizes == 1 .. MaxSize
Prices == 0 .. (NumTicks * tick_size - 1)

\* ------------------------------------------------------------ Vec helpers
Range(s) == {s[i] : i \in 1 .. Len(s)}

Contains(s, x) == \E i \in 1 .. Len(s) : s[i] = x

\* Vec::remove_item: removes the first occurrence of x, if any.
RemoveItem(s, x) ==
    IF ~Contains(s, x) THEN s
    ELSE LET k == CHOOSE i \in 1 .. Len(s) :
                      s[i] = x /\ \A j \in 1 .. (i - 1) : s[j] # x
         IN  [i \in 1 .. (Len(s) - 1) |-> IF i < k THEN s[i] ELSE s[i + 1]]

\* Insert x into the ascending sequence s after every element <= x.
RECURSIVE InsertSorted(_, _)
InsertSorted(s, x) ==
    IF s = <<>> THEN <<x>>
    ELSE IF s[Len(s)] <= x THEN Append(s, x)
    ELSE Append(InsertSorted(SubSeq(s, 1, Len(s) - 1), x), s[Len(s)])

\* Vec<u64>::sort
RECURSIVE Sort(_)
Sort(s) ==
    IF s = <<>> THEN <<>>
    ELSE InsertSorted(Sort(SubSeq(s, 1, Len(s) - 1)), s[Len(s)])

\* Insert level l = <<tick, size>> after every level whose tick is <= its own.
RECURSIVE InsertByKey(_, _)
InsertByKey(s, l) ==
    IF s = <<>> THEN <<l>>
    ELSE IF s[Len(s)][1] <= l[1] THEN Append(s, l)
    ELSE Append(InsertByKey(SubSeq(s, 1, Len(s) - 1), l), s[Len(s)])

\* sort_by_key(|l| l.0): a stable sort of the levels by tick.
RECURSIVE SortByKey(_)
SortByKey(s) ==
    IF s = <<>> THEN <<>>
    ELSE InsertByKey(SortByKey(SubSeq(s, 1, Len(s) - 1)), s[Len(s)])

\* ------------------------------------------------------------------ Book
\* (price / self.tick_size) as u64
ToTick(price) == price \div tick_size

\* impl Default for Book, with state as initialize allocates it.
DefaultBook ==
    [ best_bid         |-> 0,
      best_ask         |-> 0,
      best_bid_size    |-> 0,
      best_ask_size    |-> 0,
      bid_price_points |-> <<>>,
      ask_price_points |-> <<>>,
      state            |-> [t \in Ticks |-> None] ]

\* The bid loop of initialize: levels is the sorted (tick, size) vector.
RECURSIVE InitBids(_, _, _)
InitBids(b, levels, idx) ==
    IF idx > Len(levels) THEN b
    ELSE LET price == levels[idx][1]
             size  == levels[idx][2]
             b1 == [b EXCEPT !.state[price] = Some(size),
                             !.bid_price_points = Append(@, price)]
             b2 == IF idx = Len(levels)
                   THEN [b1 EXCEPT !.best_bid = price, !.best_bid_size = size]
                   ELSE b1
         IN  InitBids(b2, levels, idx + 1)

\* The ask loop of initialize.
RECURSIVE InitAsks(_, _, _)
InitAsks(b, levels, idx) ==
    IF idx > Len(levels) THEN b
    ELSE LET price == levels[idx][1]
             size  == levels[idx][2]
             b1 == [b EXCEPT !.state[price] = Some(size),
                             !.ask_price_points = Append(@, price)]
             b2 == IF idx = 1
                   THEN [b1 EXCEPT !.best_ask = price, !.best_ask_size = size]
                   ELSE b1
         IN  InitAsks(b2, levels, idx + 1)

\* The (tick, size) vector initialize builds from one side of the snapshot.
Quantize(levels) == [i \in 1 .. Len(levels) |-> <<ToTick(levels[i][1]), levels[i][2]>>]

\* initialize without the two sort_by_key calls.
initialize_unsorted(b, snap) ==
    LET b0 == [b EXCEPT !.state = [t \in Ticks |-> None]]
    IN  InitAsks(InitBids(b0, Quantize(snap.bids), 1), Quantize(snap.asks), 1)

\* Book::initialize
initialize(b, snap) ==
    LET bids == SortByKey(Quantize(snap.bids))
        asks == SortByKey(Quantize(snap.asks))
        b0   == [b EXCEPT !.state = [t \in Ticks |-> None]]
    IN  InitAsks(InitBids(b0, bids, 1), asks, 1)

\* ------------------------------------------------------------- new_state
\* The outcome of one pass through the body of the for loop: the book as the
\* pass leaves it and how control leaves the pass ("next": on to the next
\* update, "return": the function returns, "panic": the thread panics).
Outcome(b, ctl) == [b |-> b, ctl |-> ctl]

InRange(price) == price \in Ticks

\* BidCancel that takes the new best from the unsorted bid_price_points.
BidCancel_unsorted(b, price) ==
    IF price = b.best_bid
    THEN LET points == b.bid_price_points
         IN  IF Len(points) < 2
             THEN Outcome(b, "panic")
             ELSE LET level_price    == points[Len(points) - 1]
                      bid_level_size == b.state[level_price]
                      b2 == [b EXCEPT !.best_bid = level_price]
                  IN  IF ~IsSome(bid_level_size)
                      THEN Outcome(b2, "panic")
                      ELSE Outcome(
                             [b2 EXCEPT
                                !.best_bid_size = Unwrap(bid_level_size),
                                !.bid_price_points = SubSeq(points, 1, Len(points) - 1),
                                !.state[price] = None],
                             "next")
    ELSE IF ~InRange(price)
         THEN Outcome(b, "panic")
         ELSE Outcome(
                [b EXCEPT !.state[price] = None,
                          !.bid_price_points = RemoveItem(@, price)],
                "next")

\* Cancel of a bid, size == 0.0.
BidCancel(b, price) ==
    IF price = b.best_bid
    THEN LET sorted == Sort(b.bid_price_points)
             b1     == [b EXCEPT !.bid_price_points = sorted]
         IN  IF Len(sorted) < 2
             THEN Outcome(b1, "panic")      \* bid_price_points[len - 2]
             ELSE LET level_price    == sorted[Len(sorted) - 1]
                      bid_level_size == b.state[level_price]
                      b2 == [b1 EXCEPT !.best_bid = level_price]
                  IN  IF ~IsSome(bid_level_size)
                      THEN Outcome(b2, "panic")     \* unwrap of None
                      ELSE Outcome(
                             [b2 EXCEPT
                                !.best_bid_size = Unwrap(bid_level_size),
                                !.bid_price_points = SubSeq(sorted, 1, Len(sorted) - 1),
                                !.state[price] = None],
                             "next")
    ELSE IF ~InRange(price)
         THEN Outcome(b, "panic")           \* state[price_usize]
         ELSE Outcome(
                [b EXCEPT !.state[price] = None,
                          !.bid_price_points = RemoveItem(@, price)],
                "next")

\* Add or update of a bid, size != 0.0.
BidUpdate(b, price, size) ==
    IF ~InRange(price)
    THEN Outcome(b, "panic")                \* state[price_usize]
    ELSE LET b1 == [b EXCEPT
                      !.state[price] = Some(size),
                      !.bid_price_points =
                          IF Contains(@, price) THEN @ ELSE Append(@, price)]
         IN  IF price = b.best_bid
             THEN Outcome([b1 EXCEPT !.best_bid_size = size], "return")
             ELSE IF price > b.best_bid
             THEN Outcome([b1 EXCEPT !.best_bid = price, !.best_bid_size = size],
                          "next")
             ELSE Outcome(b1, "next")

\* AskCancel that takes the new best from the unsorted ask_price_points.
AskCancel_unsorted(b, price) ==
    IF price = b.best_ask
    THEN LET points == b.ask_price_points
         IN  IF Len(points) < 2
             THEN Outcome(b, "panic")
             ELSE LET level_price == points[2]
                      b2 == [b EXCEPT !.best_ask = level_price]
                  IN  IF ~IsSome(b.state[level_price])
                      THEN Outcome(b2, "panic")
                      ELSE Outcome(
                             [b2 EXCEPT
                                !.best_ask_size = Unwrap(b.state[level_price]),
                                !.ask_price_points = Tail(points),
                                !.state[price] = None],
                             "next")
    ELSE IF ~InRange(price)
         THEN Outcome(b, "panic")
         ELSE Outcome(
                [b EXCEPT !.state[price] = None,
                          !.ask_price_points = RemoveItem(@, price)],
                "next")

\* Cancel of an ask, size == 0.0.
AskCancel(b, price) ==
    IF price = b.best_ask
    THEN LET sorted == Sort(b.ask_price_points)
             b1     == [b EXCEPT !.ask_price_points = sorted]
         IN  IF Len(sorted) < 2
             THEN Outcome(b1, "panic")      \* ask_price_points[1]
             ELSE LET level_price == sorted[2]
                      b2 == [b1 EXCEPT !.best_ask = level_price]
                  IN  IF ~IsSome(b.state[level_price])
                      THEN Outcome(b2, "panic")     \* unwrap of None
                      ELSE Outcome(
                             [b2 EXCEPT
                                !.best_ask_size = Unwrap(b.state[level_price]),
                                !.ask_price_points = Tail(sorted),
                                !.state[price] = None],
                             "next")
    ELSE IF ~InRange(price)
         THEN Outcome(b, "panic")           \* state[price_usize]
         ELSE Outcome(
                [b EXCEPT !.state[price] = None,
                          !.ask_price_points = RemoveItem(@, price)],
                "next")

\* Add or update of an ask, size != 0.0.
AskUpdate(b, price, size) ==
    IF ~InRange(price)
    THEN Outcome(b, "panic")                \* state[price_usize]
    ELSE LET b1 == [b EXCEPT
                      !.state[price] = Some(size),
                      !.ask_price_points =
                          IF Contains(@, price) THEN @ ELSE Append(@, price)]
         IN  IF price = b.best_ask
             THEN Outcome([b1 EXCEPT !.best_ask_size = size], "return")
             ELSE IF price < b.best_ask
             THEN Outcome([b1 EXCEPT !.best_ask = price, !.best_ask_size = size],
                          "next")
             ELSE Outcome(b1, "next")

\* One pass of the for loop of new_state over the update u = (price, size, is_bid).
ApplyUpdate(b, u) ==
    IF u.is_bid
    THEN IF u.size = 0 THEN BidCancel(b, u.price) ELSE BidUpdate(b, u.price, u.size)
    ELSE IF u.size = 0 THEN AskCancel(b, u.price) ELSE AskUpdate(b, u.price, u.size)

\* The for loop of new_state from the i-th update on.
RECURSIVE NewStateFrom(_, _, _)
NewStateFrom(b, updates, i) ==
    IF i > Len(updates) THEN Outcome(b, "next")
    ELSE LET r == ApplyUpdate(b, updates[i])
         IN  IF r.ctl = "next" THEN NewStateFrom(r.b, updates, i + 1) ELSE r

\* Book::new_state
new_state(b, updates) == NewStateFrom(b, updates, 1)

\* ---------------------------------------------------------------- inputs
Levels == Prices \X Sizes

SeqsUpTo(S, n) == UNION {[1 .. k -> S] : k \in 0 .. n}

\* One side of a snapshot lists each price at most once.
DistinctPrices(levels) ==
    \A i, j \in 1 .. Len(levels) : levels[i][1] = levels[j][1] => i = j

Sides == {levels \in SeqsUpTo(Levels, MaxLevels) : DistinctPrices(levels)}

Snapshots == [bids : Sides, asks : Sides]

Updates == [price : UpdateTicks, size : 0 .. MaxSize, is_bid : BOOLEAN]

Batches == SeqsUpTo(Updates, MaxBatch) \ {<<>>}

\* --------------------------------------------------------- state machine
\* Largest number of new_state calls made on one book.
MaxCalls == 1

EmptySnapshot == [bids |-> <<>>, asks |-> <<>>]

\* The ticks one side of a snapshot quantizes to.
SnapshotTicks(levels) == {ToTick(levels[i][1]) : i \in 1 .. Len(levels)}

\* A legal snapshot: its levels quantize to pairwise distinct ticks and every
\* bid tick lies below every ask tick.  A side may be empty.
LegalSnapshot(snap) ==
    /\ Cardinality(SnapshotTicks(snap.bids)) = Len(snap.bids)
    /\ Cardinality(SnapshotTicks(snap.asks)) = Len(snap.asks)
    /\ \A p \in SnapshotTicks(snap.bids) : \A q \in SnapshotTicks(snap.asks) : p < q

\* A valid snapshot: a legal one with at least one level on each side.
ValidSnapshot(snap) ==
    LegalSnapshot(snap) /\ snap.bids # <<>> /\ snap.asks # <<>>

SnapshotKind(snap) ==
    IF ValidSnapshot(snap) THEN "valid"
    ELSE IF LegalSnapshot(snap) THEN "legal"
    ELSE "other"

VARIABLES
    pc,        \* "new": constructed; "ready": initialized; "panicked"
    snapshot,  \* the snapshot the book is about to be initialized from
    book,      \* the Book
    prev,      \* the book as it was when the last new_state call began
    updates,   \* the batch of the last new_state call (<<>>: none yet)
    calls,     \* the number of new_state calls made
    origin     \* what kind of snapshot the book was initialized from

bookVars == <<pc, snapshot, book, prev, updates, calls, origin>>

\* The persistence worker, redis_listen_and_insert, and what it acts on.
VARIABLES
    wpc,          \* where the worker thread is in redis_listen_and_insert
    published,    \* every message published so far on an exchange channel
    subscription, \* the published messages the worker has yet to receive
    message,      \* the message the worker is processing (its index in published)
    inserted,     \* the INSERTs the tick store has received, in order
    memtable,     \* the databases holding records not yet flushed to disk
    db_path,      \* the files of the tick-store source directory
    archive,      \* the local archive file of the current cycle
    bucket,       \* the objects PUT to object storage
    period,       \* the number of upload periods that have elapsed
    failure,      \* the call whose error ended the worker ("none": none did)
    upload_result \* what the last call of s3_upload returned

workerVars == <<wpc, published, subscription, message, inserted, memtable,
                db_path, archive, bucket, period, failure, upload_result>>

\* No file by that name.
NoFile == [form |-> "absent", name |-> 0, files |-> {}]

\* The worker thread has been spawned and nothing has been published.
WorkerInit ==
    /\ wpc = "subscribe"
    /\ published = <<>>
    /\ subscription = <<>>
    /\ message = 0
    /\ inserted = <<>>
    /\ memtable = {}
    /\ db_path = {}
    /\ archive = NoFile
    /\ bucket = {}
    /\ period = 0
    /\ failure = "none"
    /\ upload_result = "none"

\* One exchange feed adapter: the thread main spawns on WSExchange::run.
VARIABLES
    adapter,      \* the adapter thread: "spawned", "running", "returned"
    exchange,     \* which adapter it is: "gdax" or "bitmex" ("none": not yet run)
    conns,        \* the streaming connections opened so far, latest last
    frames,       \* the frames received so far, in order of receipt
    threads,      \* the per-frame worker threads: where each is
    poisoned,     \* whether the mutex of the shared pub/sub connection is poisoned
    channel_out   \* the frames whose batch was published, in publish order

adapterVars == <<adapter, exchange, conns, frames, threads, poisoned, channel_out>>

\* The adapter thread has been spawned and has not yet connected.
AdapterInit ==
    /\ adapter = "spawned"
    /\ exchange = "none"
    /\ conns = <<>>
    /\ frames = <<>>
    /\ threads = <<>>
    /\ poisoned = FALSE
    /\ channel_out = <<>>

\* One connection of the tick-store client, TectonicConnection, and the
\* server at its other end.
VARIABLES
    connection,   \* the command lines the TcpStream has carried, in order
    served,       \* how many of them the server has dealt with
    replies,      \* the replies the server has sent, none of them read yet
    databases,    \* the databases the server holds
    returned      \* what each operation of the client returned, in call order

clientVars == <<connection, served, replies, databases, returned>>

\* TectonicConnection::new has connected; nothing was sent.
ClientInit ==
    /\ connection = <<>>
    /\ served = 0
    /\ replies = <<>>
    /\ databases = {}
    /\ returned = <<>>

\* The argument and the value of one call of a conversion of the adapters:
\* get_asset_pair, or the decoding of one frame into its batch of deltas.
VARIABLES
    input,        \* the argument of the call, known by its kind
    output,       \* whether the call was made, and its value
    records       \* the tick-store records written for the deltas of the batch

codecVars == <<input, output, records>>

\* No call has been made.
NotCalled == [done |-> FALSE, panic |-> FALSE, value |-> <<>>]

\* Nothing to convert.
CodecInit ==
    /\ input = [kind |-> "none"]
    /\ output = NotCalled
    /\ records = <<>>

vars == <<bookVars, workerVars, adapterVars, clientVars, codecVars>>

\* The book as constructed, before any snapshot is given to it.
BookAtRest ==
    /\ pc = "new"
    /\ snapshot = EmptySnapshot
    /\ book = DefaultBook
    /\ prev = DefaultBook
    /\ updates = <<>>
    /\ calls = 0
    /\ origin = "none"

Init ==
    /\ pc = "new"
    /\ snapshot \in Snapshots
    /\ book = DefaultBook
    /\ prev = DefaultBook
    /\ updates = <<>>
    /\ calls = 0
    /\ origin = "none"
    /\ WorkerInit
    /\ AdapterInit
    /\ ClientInit
    /\ CodecInit

\* ob.initialize(&snapshot) on the freshly constructed book.
Initialize ==
    /\ pc = "new"
    /\ book' = initialize(book, snapshot)
    /\ prev' = initialize(book, snapshot)
    /\ snapshot' = EmptySnapshot
    /\ origin' = SnapshotKind(snapshot)
    /\ pc' = "ready"
    /\ UNCHANGED <<updates, calls>>
    /\ UNCHANGED <<workerVars, adapterVars, clientVars, codecVars>>

\* ob.new_state(&batch)
NewState ==
    /\ pc = "ready"
    /\ calls < MaxCalls
    /\ \E batch \in Batches :
          LET r == new_state(book, batch)
          IN  /\ prev' = book
              /\ updates' = batch
              /\ book' = r.b
              /\ pc' = IF r.ctl = "panic" THEN "panicked" ELSE "ready"
    /\ calls' = calls + 1
    /\ UNCHANGED <<snapshot, origin>>
    /\ UNCHANGED <<workerVars, adapterVars, clientVars, codecVars>>

Next == Initialize \/ NewState

Spec == Init /\ [][Next]_vars

TypeOK ==
    /\ pc \in {"new", "ready", "panicked"}
    /\ book.best_bid \in Ticks /\ book.best_ask \in Ticks
    /\ book.best_bid_size \in 0 .. MaxSize /\ book.best_ask_size \in 0 .. MaxSize
    /\ Range(book.bid_price_points) \subseteq Ticks
    /\ Range(book.ask_price_points) \subseteq Ticks
    /\ \A t \in Ticks : book.state[t] = None \/ \E s \in Sizes : book.state[t] = Some(s)

\* ======================================================================
\* Properties of the order-book engine
\* ======================================================================
Max(S) == CHOOSE x \in S : \A y \in S : y <= x
Min(S) == CHOOSE x \in S : \A y \in S : x <= y

BidTicks(b) == Range(b.bid_price_points)
AskTicks(b) == Range(b.ask_price_points)

\* The ticks of a side that hold a resting size.
OccupiedBids(b) == {p \in BidTicks(b) : IsSome(b.state[p])}
OccupiedAsks(b) == {p \in AskTicks(b) : IsSome(b.state[p])}

\* A call of new_state has completed on a book initialized from a valid snapshot.
AfterValid == pc = "ready" /\ origin = "valid"

\* C1: from a valid snapshot and after any sequence of new_state batches,
\* state[best_bid] = Some(best_bid_size) and state[best_ask] = Some(best_ask_size).
C1_BestSizesMatchState ==
    AfterValid =>
        /\ book.state[book.best_bid] = Some(book.best_bid_size)
        /\ book.state[book.best_ask] = Some(book.best_ask_size)

\* C2: from a valid snapshot and after any sequence of new_state batches,
\* best_bid < best_ask: the book is never crossed.
C2_NeverCrossed ==
    AfterValid => book.best_bid < book.best_ask

\* C3: from any legal snapshot (an empty one included) and after any sequence of
\* new_state batches, a side that has a resting level has its best at the
\* highest occupied bid tick, respectively the lowest occupied ask tick.
C3_BestIsExtremeOccupiedTick ==
    (pc = "ready" /\ origin \in {"valid", "legal"}) =>
        /\ OccupiedBids(book) # {} => book.best_bid = Max(OccupiedBids(book))
        /\ OccupiedAsks(book) # {} => book.best_ask = Min(OccupiedAsks(book))

\* The update u would become a new best of book b that crosses the opposite side.
Crossing(b, u) ==
    /\ u.size # 0
    /\ InRange(u.price)
    /\ \/ u.is_bid /\ u.price > b.best_bid /\ u.price >= b.best_ask
       \/ ~u.is_bid /\ u.price < b.best_ask /\ u.price <= b.best_bid

\* C4: an update that would become a new best crossing the opposite side is
\* rejected: the book (state, both price-point sets, both bests and both best
\* sizes) is as it was before that update.
C4_CrossingUpdateRejected ==
    (AfterValid /\ calls > 0 /\ Len(updates) = 1 /\ Crossing(prev, updates[1]))
        => book = prev

\* The book after calling new_state once per update of us, in order.
RECURSIVE OneAtATime(_, _, _)
OneAtATime(b, us, i) ==
    IF i > Len(us) THEN Outcome(b, "next")
    ELSE LET r == new_state(b, <<us[i]>>)
         IN  IF r.ctl = "panic" THEN r ELSE OneAtATime(r.b, us, i + 1)

\* state[p] as the update u leaves it.
Written(u) == IF u.size = 0 THEN None ELSE Some(u.size)

\* C5: every update of a batch is applied, in array order: the batch yields the
\* book that its updates yield when applied one call at a time, and of two
\* updates of a batch at the same tick the later one determines state there.
C5_BatchAppliedInOrder ==
    (pc = "ready" /\ calls > 0) =>
        /\ book = OneAtATime(prev, updates, 1).b
        /\ (Len(updates) = 2 /\ updates[1].price = updates[2].price)
              => book.state[updates[2].price] = Written(updates[2])

\* C6: p is in bid_price_points iff state[p] is Some and p <= best_bid, and
\* p is in ask_price_points iff state[p] is Some and p >= best_ask.
C6_PricePointsMatchState ==
    AfterValid =>
        \A p \in Ticks :
            /\ p \in BidTicks(book) <=> (IsSome(book.state[p]) /\ p <= book.best_bid)
            /\ p \in AskTicks(book) <=> (IsSome(book.state[p]) /\ p >= book.best_ask)

\* C7: the occupied bid ticks and the occupied ask ticks are disjoint.
C7_SidesDisjoint ==
    AfterValid => BidTicks(book) \cap AskTicks(book) = {}

\* The levels of both sides of a snapshot, as <<price, size>> pairs.
SnapshotLevels(snap) == Range(snap.bids) \cup Range(snap.asks)

\* What C8 says of the book b that initialize built from the snapshot snap.
InitializedFrom(snap, b) ==
    /\ \A l \in SnapshotLevels(snap) : b.state[ToTick(l[1])] = Some(l[2])
    /\ \A t \in Ticks :
          (\A l \in SnapshotLevels(snap) : ToTick(l[1]) # t) => b.state[t] = None
    /\ snap.bids # <<>> =>
          /\ b.best_bid = Max(SnapshotTicks(snap.bids))
          /\ b.state[b.best_bid] = Some(b.best_bid_size)
    /\ snap.asks # <<>> =>
          /\ b.best_ask = Min(SnapshotTicks(snap.asks))
          /\ b.state[b.best_ask] = Some(b.best_ask_size)

\* The step is a call of initialize on the freshly constructed book.
InitializeStep == pc = "new" /\ pc' = "ready"

OneSizePerTick(snap) ==
    \A l1, l2 \in SnapshotLevels(snap) : ToTick(l1[1]) = ToTick(l2[1]) => l1[2] = l2[2]

NoDuplicates(v) == \A i, j \in 1 .. Len(v) : v[i] = v[j] => i = j

\* The ask side of b is sound: ask_price_points lists the ask levels, each tick
\* once and each with a resting size in state, and best_ask is the lowest.
SoundAsks(b) ==
    /\ NoDuplicates(b.ask_price_points)
    /\ AskTicks(b) # {}
    /\ \A p \in AskTicks(b) : IsSome(b.state[p])
    /\ b.best_ask = Min(AskTicks(b))

\* The bid side of b is sound, symmetrically: best_bid is the highest bid tick.
SoundBids(b) ==
    /\ NoDuplicates(b.bid_price_points)
    /\ BidTicks(b) # {}
    /\ \A p \in BidTicks(b) : IsSome(b.state[p])
    /\ b.best_bid = Max(BidTicks(b))

TwoAskLevels(b) == SoundAsks(b) /\ Cardinality(AskTicks(b)) >= 2
TwoBidLevels(b) == SoundBids(b) /\ Cardinality(BidTicks(b)) >= 2

CancelBestAsk(b) == <<[price |-> b.best_ask, size |-> 0, is_bid |-> FALSE]>>
CancelBestBid(b) == <<[price |-> b.best_bid, size |-> 0, is_bid |-> TRUE]>>

\* b1 is b with its best ask cancelled: the best ask moved to the next-lowest
\* ask tick of b, with the size stored there, and the cancelled tick is clear.
BestAskMoved(b, b1) ==
    /\ b1.best_ask = Min(AskTicks(b) \ {b.best_ask})
    /\ b1.state[b1.best_ask] = Some(b1.best_ask_size)
    /\ b1.state[b1.best_ask] = b.state[b1.best_ask]
    /\ b1.state[b.best_ask] = None

\* b1 is b with its best bid cancelled, symmetrically.
BestBidMoved(b, b1) ==
    /\ b1.best_bid = Max(BidTicks(b) \ {b.best_bid})
    /\ b1.state[b1.best_bid] = Some(b1.best_bid_size)
    /\ b1.state[b1.best_bid] = b.state[b1.best_bid]
    /\ b1.state[b.best_bid] = None

\* The call new_state(CancelBestAsk(b)) on b completes and moves the best ask.
CancelBestAskMoves(b) ==
    LET r == new_state(b, CancelBestAsk(b))
    IN  r.ctl # "panic" /\ BestAskMoved(b, r.b)

\* The call new_state(CancelBestBid(b)) on b completes and moves the best bid.
CancelBestBidMoves(b) ==
    LET r == new_state(b, CancelBestBid(b))
    IN  r.ctl # "panic" /\ BestBidMoved(b, r.b)

FlipBestBid(b, s) ==
    <<[price |-> b.best_bid, size |-> 0, is_bid |-> TRUE],
      [price |-> b.best_bid, size |-> s, is_bid |-> FALSE]>>

\* b1 is b with its best bid tick turned into the best ask.
BestBidFlipped(b, b1) ==
    /\ b1.best_bid = Max(BidTicks(b) \ {b.best_bid})
    /\ b1.best_ask = b.best_bid
    /\ b1.state[b1.best_bid] = Some(b1.best_bid_size)
    /\ b1.state[b1.best_ask] = Some(b1.best_ask_size)

\* A book with at least two bid levels whose best bid lies below its best ask.
TwoBidLevelsUncrossed(b) == TwoBidLevels(b) /\ b.best_bid < b.best_ask

get_snapshot(b) ==
    [ bids |-> [i \in 1 .. Len(b.bid_price_points) |->
                  LET level_price == b.bid_price_points[i]
                  IN  <<level_price,
                        IF IsSome(b.state[level_price])
                        THEN Unwrap(b.state[level_price]) ELSE 0>>],
      asks |-> [i \in 1 .. Len(b.ask_price_points) |->
                  LET level_price == b.ask_price_points[i]
                  IN  <<level_price,
                        IF IsSome(b.state[level_price])
                        THEN Unwrap(b.state[level_price]) ELSE 0>>] ]

\* Book::real_price, in price quanta: fake_price as f32 * self.tick_size.
real_price(fake_price) == fake_price * tick_size

\* The size-zero update at tick p on the bid side (is_bid) or the ask side.
Removal(p, is_bid) == [price |-> p, size |-> 0, is_bid |-> is_bid]

\* The removal applied once to b, by a call of new_state.
RemovedOnce(b, p, is_bid) == new_state(b, <<Removal(p, is_bid)>>)

\* The removal applied a second time, to the book the first call left; when
\* the first call panicked there is no second call.
RemovedTwice(b, p, is_bid) ==
    LET once == RemovedOnce(b, p, is_bid)
    IN  IF once.ctl = "panic" THEN once ELSE RemovedOnce(once.b, p, is_bid)

\* C11: removal is idempotent.  For every reachable book, every tick p and
\* every side, applying (p, 0, side) twice yields the same book (state, both
\* price-point vectors, best ticks and best sizes) as applying it once, and
\* the second application completes whenever the first did.
C11_RemovalIdempotent ==
    pc = "ready" =>
        \A p \in Ticks : \A is_bid \in BOOLEAN :
            /\ RemovedTwice(book, p, is_bid).ctl = RemovedOnce(book, p, is_bid).ctl
            /\ RemovedTwice(book, p, is_bid).b = RemovedOnce(book, p, is_bid).b

\* The side of b named by is_bid has no resting level at tick p.
NoRestingLevel(b, p, is_bid) ==
    IF is_bid THEN p \notin BidTicks(b) ELSE p \notin AskTicks(b)

\* C12: a size-zero removal (p, 0, side) for a tick p that has no resting
\* level on that side completes without panicking and leaves the book
\* unchanged, whatever that side holds (nothing at all included).
C12_AbsentRemovalIsNoOp ==
    pc = "ready" =>
        \A p \in Ticks : \A is_bid \in BOOLEAN :
            NoRestingLevel(book, p, is_bid) =>
                /\ RemovedOnce(book, p, is_bid).ctl # "panic"
                /\ RemovedOnce(book, p, is_bid).b = book

\* The levels of one side of snapshot s, each price quantized to its multiple
\* of tick_size: <<real price of the tick, size>>.
QuantizedLevels(levels) ==
    {<<real_price(ToTick(levels[i][1])), levels[i][2]>> : i \in 1 .. Len(levels)}

\* The snapshot out equals the snapshot s up to quantization and ordering.
RoundTrip(s, out) ==
    /\ Range(out.bids) = QuantizedLevels(s.bids)
    /\ Range(out.asks) = QuantizedLevels(s.asks)

\* C13: get_snapshot() called immediately after initialize(s) returns the bid
\* and ask levels of s up to quantization of each price to a multiple of
\* tick_size and up to ordering: each returned level carries the real price
\* (tick x tick_size) and the size of the corresponding level of s.
C13_SnapshotRoundTrip ==
    [][(InitializeStep /\ LegalSnapshot(snapshot))
          => RoundTrip(snapshot, get_snapshot(book'))]_vars

\* The side of b holds one resting level, which is the best.
OneBidLevel(b) == SoundBids(b) /\ Len(b.bid_price_points) = 1
OneAskLevel(b) == SoundAsks(b) /\ Len(b.ask_price_points) = 1

\* b1 is b with its only bid (ask) cancelled: the side is empty and the tick
\* is clear.
BidSideEmptied(b, b1) ==
    b1.bid_price_points = <<>> /\ b1.state[b.best_bid] = None
AskSideEmptied(b, b1) ==
    b1.ask_price_points = <<>> /\ b1.state[b.best_ask] = None

\* C37: cancelling the only resting level of a side (a size-zero update at
\* best_bid when bid_price_points holds one tick, or at best_ask when
\* ask_price_points holds one tick) completes without panicking and leaves
\* that side empty, with the cancelled tick cleared in state and removed from
\* the price-point set.  Stated of the call that was last made and of the same
\* call on the book as it now is.
C37_CancelOnlyLevel ==
    /\ (calls > 0 /\ OneBidLevel(prev) /\ updates = CancelBestBid(prev))
          => pc = "ready" /\ BidSideEmptied(prev, book)
    /\ (calls > 0 /\ OneAskLevel(prev) /\ updates = CancelBestAsk(prev))
          => pc = "ready" /\ AskSideEmptied(prev, book)
    /\ (pc = "ready" /\ OneBidLevel(book))
          => LET r == new_state(book, CancelBestBid(book))
             IN  r.ctl # "panic" /\ BidSideEmptied(book, r.b)
    /\ (pc = "ready" /\ OneAskLevel(book))
          => LET r == new_state(book, CancelBestAsk(book))
             IN  r.ctl # "panic" /\ AskSideEmptied(book, r.b)

\* C38: bid_price_points and ask_price_points never contain the same tick
\* twice: this holds after initialize, including when two snapshot prices
\* quantize to the same tick, and after any sequence of new_state batches.
C38_NoTickListedTwice ==
    pc # "new" =>
        /\ NoDuplicates(book.bid_price_points)
        /\ NoDuplicates(book.ask_price_points)

\* ======================================================================
\* Persistence worker (listener.rs) and archive worker (uploader.rs)
\* ======================================================================
\* Largest number of messages published on the exchange channels.
MaxMsgs == 2
\* Largest number of deltas in one published batch.
MaxDeltas == 2

\* exchange::get_supported_exchanges(): the channels the worker subscribes to.
Channels == {"bitmex", "gdax"}

\* Delta.symbol; the other fields of a Delta play no part in the worker.
Symbols == {"XBTUSD", "ETHUSD"}

\* A batch of deltas, each known by its symbol.
DeltaBatches == SeqsUpTo(Symbols, MaxDeltas)

\* serde_json::to_string(&deltas): the JSON text of a batch.
to_string(deltas) == <<"json", deltas>>

\* The payloads a channel can carry: the JSON array of a batch, as the adapters
\* publish it, or text that is no JSON array of deltas.
Payloads == {to_string(deltas) : deltas \in DeltaBatches} \cup {<<"text">>}

\* serde_json::from_str::<Vec<orderbook::Delta>>(&payload)
from_str(payload) ==
    IF payload[1] = "json"
    THEN [is_err |-> FALSE, deltas |-> payload[2]]
    ELSE [is_err |-> TRUE, deltas |-> <<>>]

\* format!("{}_{}", message.get_channel_name(), delta.symbol)
DbName(channel, symbol) == <<channel, "_", symbol>>

\* Utc::now().to_rfc3339() + ".tar.xz" in the cycle of the given period.
ArchiveName(now) == now

\* The steps of compress_database_and_delete that can fail ("none": none does).
CompressFailures == {"none", "create", "tar", "xz", "write", "read_dir", "remove_file"}

\* compress_database_and_delete that deletes the source files once the tar
\* archive is written, before it is compressed.
compress_database_and_delete_early(db_name, files, fail, kept) ==
    IF fail = "create"
    THEN [db_path |-> files, archive |-> NoFile, result |-> "Err"]
    ELSE IF fail \in {"tar", "write"}
    THEN [db_path |-> IF fail = "write" THEN {} ELSE files,
          archive |-> [form |-> "partial", name |-> db_name, files |-> {}],
          result  |-> "Err"]
    ELSE IF fail = "xz"
    THEN [db_path |-> {},
          archive |-> [form |-> "tar", name |-> db_name, files |-> files],
          result  |-> "Err"]
    ELSE IF fail = "read_dir"
    THEN [db_path |-> files,
          archive |-> [form |-> "xz", name |-> db_name, files |-> files],
          result  |-> "Err"]
    ELSE IF fail = "remove_file"
    THEN [db_path |-> kept,
          archive |-> [form |-> "xz", name |-> db_name, files |-> files],
          result  |-> "panic"]
    ELSE [db_path |-> {},
          archive |-> [form |-> "xz", name |-> db_name, files |-> files],
          result  |-> "Ok"]

\* compress_database_and_delete(db_name, db_path) on a source directory holding
\* files, where the step fail fails and, when that step is the removal of a
\* file, the files kept are still there.  Yields the source directory, the
\* local archive file and the result ("panic": the expect on remove_file).
compress_database_and_delete(db_name, files, fail, kept) ==
    IF fail = "create"
    THEN [db_path |-> files, archive |-> NoFile, result |-> "Err"]
    ELSE IF fail \in {"tar", "write"}
    THEN [db_path |-> files,
          archive |-> [form |-> "partial", name |-> db_name, files |-> {}],
          result  |-> "Err"]
    ELSE IF fail = "xz"
    THEN [db_path |-> files,
          archive |-> [form |-> "tar", name |-> db_name, files |-> files],
          result  |-> "Err"]
    ELSE IF fail = "read_dir"
    THEN [db_path |-> files,
          archive |-> [form |-> "xz", name |-> db_name, files |-> files],
          result  |-> "Err"]
    ELSE IF fail = "remove_file"
    THEN [db_path |-> kept,
          archive |-> [form |-> "xz", name |-> db_name, files |-> files],
          result  |-> "panic"]
    ELSE [db_path |-> {},
          archive |-> [form |-> "xz", name |-> db_name, files |-> files],
          result  |-> "Ok"]

\* The steps of s3_upload that can fail ("none": none does).
UploadFailures == {"none", "open", "read", "put", "remove_archive"}

\* s3_upload that removes the local archive whatever the PUT returned.
s3_upload_removing(file, fail) ==
    IF file.form = "absent" \/ fail \in {"open", "read"}
    THEN [archive |-> file, put |-> FALSE, result |-> "Err"]
    ELSE IF fail = "put"
    THEN [archive |-> NoFile, put |-> FALSE, result |-> "Err"]
    ELSE IF fail = "remove_archive"
    THEN [archive |-> file, put |-> TRUE, result |-> "Err"]
    ELSE [archive |-> NoFile, put |-> TRUE, result |-> "Ok"]

\* s3_upload(db_name, ..) on the local file, where the step fail fails.  Yields
\* the local file, whether the PUT put the object, and the result.
s3_upload(file, fail) ==
    IF file.form = "absent" \/ fail \in {"open", "read"}
    THEN [archive |-> file, put |-> FALSE, result |-> "Err"]    \* File::open, read_to_end
    ELSE IF fail = "put"
    THEN [archive |-> file, put |-> FALSE, result |-> "Err"]    \* Err(e) of put_object
    ELSE IF fail = "remove_archive"
    THEN [archive |-> file, put |-> TRUE, result |-> "Err"]     \* remove_file(db_name)?
    ELSE [archive |-> NoFile, put |-> TRUE, result |-> "Ok"]

\* The object a PUT of the local file stores.
Object(file) == [key |-> file.name, files |-> file.files]

\* The worker holds a subscription that the broker delivers to.
Subscribed == wpc \notin {"subscribe", "panicked"}

\* subscription.subscribe(exch) for every supported exchange.
Subscribe ==
    /\ wpc = "subscribe"
    /\ wpc' = "sleep"
    /\ UNCHANGED <<published, subscription, message, inserted, memtable, db_path,
                   archive, bucket, period, failure, upload_result>>
    /\ UNCHANGED <<bookVars, adapterVars, clientVars, codecVars>>

\* A publish on an exchange channel, by an adapter (a JSON array of deltas) or
\* by anyone else.  The broker hands the message to the worker's subscription
\* if there is one, and to nobody otherwise.
Publish ==
    /\ Len(published) < MaxMsgs
    /\ \E channel \in Channels, payload \in Payloads :
          /\ published' = Append(published,
                                 [channel   |-> channel,
                                  payload   |-> payload,
                                  delivered |-> Subscribed,
                                  period    |-> period])
          /\ subscription' = IF Subscribed
                             THEN Append(subscription, Len(published) + 1)
                             ELSE subscription
    /\ UNCHANGED <<wpc, message, inserted, memtable, db_path, archive, bucket,
                   period, failure, upload_result>>
    /\ UNCHANGED <<bookVars, adapterVars, clientVars, codecVars>>

\* thread::sleep(UPLOAD_PERIOD): the upload period elapses.
Sleep ==
    /\ wpc = "sleep"
    /\ wpc' = "get_message"
    /\ period' = period + 1
    /\ UNCHANGED <<published, subscription, message, inserted, memtable, db_path,
                   archive, bucket, failure, upload_result>>
    /\ UNCHANGED <<bookVars, adapterVars, clientVars, codecVars>>

\* subscription.get_message(), which blocks until a message is there, and the
\* deserialization of its payload; on an error of the latter, `continue`.
GetMessage ==
    /\ wpc = "get_message"
    /\ subscription # <<>>
    /\ message' = Head(subscription)
    /\ subscription' = Tail(subscription)
    /\ wpc' = IF from_str(published[Head(subscription)].payload).is_err
              THEN "sleep" ELSE "insert_into"
    /\ UNCHANGED <<published, inserted, memtable, db_path, archive, bucket,
                   period, failure, upload_result>>
    /\ UNCHANGED <<bookVars, adapterVars, clientVars, codecVars>>

\* The INSERT of the idx-th delta of the message published as the id-th.
InsertOf(id, idx) ==
    [id  |-> id,
     idx |-> idx,
     db  |-> DbName(published[id].channel,
                    from_str(published[id].payload).deltas[idx])]

\* The for loop over the deltas: t.insert_into(..).unwrap() for each.  Either
\* every INSERT goes through, or the one after the first done fails in
\* transport and the unwrap panics.
InsertInto ==
    /\ wpc = "insert_into"
    /\ LET deltas == from_str(published[message].payload).deltas
       IN  \E done \in 0 .. Len(deltas) :
              /\ inserted' = inserted \o [idx \in 1 .. done |-> InsertOf(message, idx)]
              /\ memtable' = memtable \cup
                     {InsertOf(message, idx).db : idx \in 1 .. done}
              /\ wpc' = IF done = Len(deltas) THEN "flush_all" ELSE "panicked"
              /\ failure' = IF done = Len(deltas) THEN failure ELSE "insert_into"
    /\ UNCHANGED <<published, subscription, message, db_path, archive, bucket,
                   period, upload_result>>
    /\ UNCHANGED <<bookVars, adapterVars, clientVars, codecVars>>

\* t.flush_all().unwrap(): the tick store writes every memtable to its file,
\* or the command fails in transport and the unwrap panics.
FlushAll ==
    /\ wpc = "flush_all"
    /\ \E is_err \in BOOLEAN :
          IF is_err
          THEN /\ wpc' = "panicked"
               /\ failure' = "flush_all"
               /\ UNCHANGED <<memtable, db_path>>
          ELSE /\ wpc' = "compress"
               /\ db_path' = db_path \cup memtable
               /\ memtable' = {}
               /\ UNCHANGED failure
    /\ UNCHANGED <<published, subscription, message, inserted, archive, bucket,
                   period, upload_result>>
    /\ UNCHANGED <<bookVars, adapterVars, clientVars, codecVars>>

\* uploader::compress_database_and_delete(&t, None).unwrap()
Compress ==
    /\ wpc = "compress"
    /\ \E fail \in CompressFailures, kept \in SUBSET db_path :
          /\ fail = "remove_file" => kept # {}
          /\ fail # "remove_file" => kept = {}
          /\ LET r == compress_database_and_delete(ArchiveName(period), db_path,
                                                   fail, kept)
             IN  /\ db_path' = r.db_path
                 /\ archive' = r.archive
                 /\ wpc' = IF r.result = "Ok" THEN "upload" ELSE "panicked"
                 /\ failure' = IF r.result = "Ok" THEN failure ELSE fail
    /\ UNCHANGED <<published, subscription, message, inserted, memtable, bucket,
                   period, upload_result>>
    /\ UNCHANGED <<bookVars, adapterVars, clientVars, codecVars>>

\* uploader::s3_upload(&t, None, None, None).unwrap(), then println!("Success")
\* and the next pass of the loop.
Upload ==
    /\ wpc = "upload"
    /\ \E fail \in UploadFailures :
          LET r == s3_upload(archive, fail)
          IN  /\ archive' = r.archive
              /\ bucket' = IF r.put THEN bucket \cup {Object(archive)} ELSE bucket
              /\ upload_result' = r.result
              /\ wpc' = IF r.result = "Ok" THEN "sleep" ELSE "panicked"
              /\ failure' = IF r.result = "Ok" THEN failure ELSE fail
    /\ UNCHANGED <<published, subscription, message, inserted, memtable, db_path,
                   period>>
    /\ UNCHANGED <<bookVars, adapterVars, clientVars, codecVars>>

\* A step of the worker thread.
WorkerStep ==
    Subscribe \/ Sleep \/ GetMessage \/ InsertInto \/ FlushAll \/ Compress \/ Upload

WorkerNext == Publish \/ WorkerStep

\* The worker thread has been spawned; the book and the adapter are at rest.
WorkerStart ==
    BookAtRest /\ WorkerInit /\ AdapterInit /\ ClientInit /\ CodecInit

\* The worker thread runs whenever it is not blocked.
WorkerSpec ==
    /\ WorkerStart
    /\ [][WorkerNext]_vars
    /\ WF_vars(WorkerStep)

\* ======================================================================
\* Properties of the persistence worker and the archive worker
\* ======================================================================
\* C14: in every archive cycle no file of the tick-store source directory is
\* deleted before the PUT of the archive containing it has succeeded: a file
\* that a step deletes is held by an object this cycle has PUT.
C14_SourcesDeletedAfterPut ==
    [][\A f \in db_path \ db_path' :
          \E o \in bucket : o.key = ArchiveName(period) /\ f \in o.files]_vars

\* C15: when the PUT fails, s3_upload returns the error to its caller and the
\* local .tar.xz archive still exists afterwards; the local archive is deleted
\* only by a step that leaves its object in the bucket.
C15_PutFailureKeepsArchive ==
    /\ [](failure = "put" =>
            /\ upload_result = "Err"
            /\ archive.form = "xz"
            /\ Object(archive) \notin bucket)
    /\ [][(archive.form # "absent" /\ archive'.form = "absent")
            => (Object(archive) \in bucket' /\ upload_result' = "Ok")]_vars

\* C15 witness: a PUT has failed on the archive of a flushed database file;
\* s3_upload returned Err and the archive is still there.
C15_Witness ==
    /\ failure = "put"
    /\ upload_result = "Err"
    /\ archive.form = "xz" /\ archive.files # {}
    /\ bucket = {}

\* The steps of compress_database_and_delete that create the tar archive and
\* compress it.
ArchiveSteps == {"create", "tar", "xz", "write"}

\* C40: if creating the tar archive or xz-compressing it fails at any step,
\* compress_database_and_delete returns the error without having deleted any
\* file of the source directory: the step of the worker on which such a step
\* failed leaves the directory as it was, and in every state in which the
\* worker is about to call it, the call with such a failure yields Err and
\* the directory unchanged.
C40_ArchiveFailureDeletesNothing ==
    /\ [][(wpc = "compress" /\ wpc' = "panicked" /\ failure' \in ArchiveSteps)
            => db_path' = db_path]_vars
    /\ [](wpc = "compress" =>
            \A fail \in ArchiveSteps :
                LET r == compress_database_and_delete(ArchiveName(period),
                                                      db_path, fail, {})
                IN  r.result = "Err" /\ r.db_path = db_path)

\* C40 witness: a step of archiving has failed in a cycle whose source
\* directory holds a flushed database file; the file is still there.
C40_Witness ==
    /\ wpc = "panicked"
    /\ failure \in ArchiveSteps
    /\ db_path # {}

\* The number of INSERTs the tick store received for delta idx of message id.
Inserts(id, idx) ==
    Cardinality({k \in 1 .. Len(inserted) :
                    inserted[k].id = id /\ inserted[k].idx = idx})

\* Message id is a batch of deltas that the broker handed to the worker.
Handed(id) ==
    /\ id <= Len(published)
    /\ published[id].delivered
    /\ ~from_str(published[id].payload).is_err

\* Every delta of message id was inserted once, into {channel}_{symbol}.
InsertedOnce(id) ==
    /\ id <= Len(published)
    /\ \A idx \in 1 .. Len(from_str(published[id].payload).deltas) :
          /\ Inserts(id, idx) = 1
          /\ \E k \in 1 .. Len(inserted) : inserted[k] = InsertOf(id, idx)

\* C16: every Delta published to an exchange channel is received by the
\* persistence worker exactly once and results in exactly one INSERT into the
\* database {channel}_{symbol}: no delta is inserted twice, and every batch
\* handed to the worker's subscription is in the end inserted, delta by delta.
C16_EveryDeltaInsertedOnce ==
    /\ [](\A id \in 1 .. Len(published) : \A idx \in 1 .. MaxDeltas :
             Inserts(id, idx) <= 1)
    /\ \A id \in 1 .. MaxMsgs : Handed(id) ~> InsertedOnce(id)

\* C17: when a period's FLUSH ALL is issued, no message published before that
\* period elapsed is still unconsumed.
C17_PeriodDrainedBeforeFlush ==
    [][(wpc = "flush_all" /\ wpc' = "compress")
          => \A k \in 1 .. Len(subscription) :
                published[subscription[k]].period >= period]_vars

\* C18: a transport error of the tick-store connection during an INSERT or a
\* FLUSH ALL does not terminate the persistence worker.
C18_WorkerSurvivesTickStoreError ==
    failure \in {"insert_into", "flush_all"} => wpc # "panicked"

\* The archive of the period has been handed to the archive worker and put.
Archived(p) == \E o \in bucket : o.key = ArchiveName(p)

\* No archive is created unless a FLUSH ALL was issued after the last INSERT:
\* the archive is created by a step that finds every memtable flushed.
FlushedBeforeArchive ==
    [][(archive.form = "absent" /\ archive'.form # "absent")
          => (wpc = "compress" /\ memtable = {})]_vars

\* C36: in every upload period the persistence worker performs, in this
\* order: INSERT of that period's deltas, FLUSH ALL, archive creation, upload;
\* no archive is created unless a FLUSH ALL was issued after the last INSERT of
\* the period, and every elapsed period reaches the FLUSH ALL and the archive
\* hand-off: when the worker starts the sleep of the next period, the archive
\* of the period that ends is in the bucket.
C36_EveryPeriodFlushedAndArchived ==
    /\ FlushedBeforeArchive
    /\ [][(wpc = "sleep" /\ wpc' = "get_message" /\ period >= 1)
            => Archived(period)]_vars

\* ======================================================================
\* Exchange feed adapters (exchange/gdax_l2.rs, exchange/bitmex.rs)
\* ======================================================================
\* Largest number of streaming connections one adapter opens.
MaxConns == 3
\* Largest number of frames one adapter receives.
MaxFrames == 2
\* self.out.timeout(5_000, EXPIRE): the delay of the GDAX timeout, in seconds.
TimeoutSeconds == 5

Exchanges == {"gdax", "bitmex"}

\* What main passes to WSExchange::run: host, asset pairs and channels.
Settings(e) ==
    IF e = "gdax"
    THEN [host       |-> "wss://ws-feed.pro.coinbase.com",
          asset_pair |-> <<"BTC-USD", "ETH-USD", "LTC-USD">>,
          channels   |-> <<"level2", "matches">>]
    ELSE [host       |-> "wss://www.bitmex.com/realtime",
          asset_pair |-> <<"XBTUSD">>,
          channels   |-> <<"orderBookL2", "trade">>]

\* The frames an exchange can send.  json: the frame deserializes into the
\* adapter's message struct; fields_ok: every field the adapter unwraps, parses
\* or looks up is present, parseable and known.
GdaxFrames ==
    [json : {TRUE}, type : {"l2update", "match", "snapshot"}, fields_ok : BOOLEAN]
      \cup {[json |-> FALSE, type |-> "", fields_ok |-> FALSE]}

BitmexFrames ==
    [json : {TRUE}, type : {"update", "partial", "no_table"}, fields_ok : BOOLEAN]
      \cup {[json |-> FALSE, type |-> "", fields_ok |-> FALSE]}

Frames(e) == IF e = "gdax" THEN GdaxFrames ELSE BitmexFrames

\* A frame that decodes: well-formed JSON with every field in order.
WellFormed(frame) == frame.json /\ frame.fields_ok

\* The frame as on_message is handed it, on connection number c.
Received(frame, c) ==
    [json |-> frame.json, type |-> frame.type, fields_ok |-> frame.fields_ok,
     conn |-> c]

\* The connection ws::connect opens with the sender built from settings, after
\* its on_open: the subscription frame is sent and, on GDAX, the EXPIRE timeout
\* is set.  While the timeout is pending on the running connection, elapsed
\* counts the seconds since on_open set it and idle the seconds since the
\* connection was opened or last handed a frame.
NewConn(e, settings) ==
    [open       |-> TRUE,
     subscribed |-> TRUE,
     settings   |-> settings,
     timer      |-> IF e = "gdax" THEN "armed" ELSE "none",
     elapsed    |-> 0,
     idle       |-> 0]

\* The connection once its timeout is no longer pending on the running
\* connection: the clocks are kept no further.
Settled(conn) == [conn EXCEPT !.elapsed = 0, !.idle = 0]

\* The connection whose event loop is running: the one opened last.
Current == conns[Len(conns)]

\* WSExchange::run(Some(&settings)): ws::connect and the on_open of its sender.
Run ==
    /\ adapter = "spawned"
    /\ \E e \in Exchanges :
          /\ exchange' = e
          /\ conns' = <<NewConn(e, Settings(e))>>
    /\ adapter' = "running"
    /\ UNCHANGED <<frames, threads, poisoned, channel_out>>
    /\ UNCHANGED <<bookVars, workerVars, clientVars, codecVars>>

\* on_message: the frame is handed to a thread spawned for it.  The handler
\* does not touch the timeout on_open has set.
OnMessage ==
    /\ adapter = "running"
    /\ Current.open
    /\ Len(frames) < MaxFrames
    /\ \E frame \in Frames(exchange) :
          frames' = Append(frames, Received(frame, Len(conns)))
    /\ threads' = Append(threads, "decode")
    /\ conns' = [conns EXCEPT ![Len(conns)].idle = 0]
    /\ UNCHANGED <<adapter, exchange, poisoned, channel_out>>
    /\ UNCHANGED <<bookVars, workerVars, clientVars, codecVars>>

\* A second passes on the open GDAX connection whose timeout is pending; the
\* event loop lets no time pass beyond the instant the timeout is due.
Elapse ==
    /\ adapter = "running"
    /\ Current.open
    /\ Current.timer = "armed"
    /\ Current.elapsed < TimeoutSeconds
    /\ conns' = [conns EXCEPT ![Len(conns)].elapsed = @ + 1,
                              ![Len(conns)].idle = @ + 1]
    /\ UNCHANGED <<adapter, exchange, frames, threads, poisoned, channel_out>>
    /\ UNCHANGED <<bookVars, workerVars, clientVars, codecVars>>

\* The streaming connection closes.  GDAX: on_close opens a new connection with
\* the sender's own host, metadata and channels.  BitMEX: the handler has no
\* on_close; ws::connect returns and with it run.
OnClose ==
    /\ adapter = "running"
    /\ Current.open
    /\ Len(conns) < MaxConns
    /\ LET closed == [conns EXCEPT ![Len(conns)] = Settled([@ EXCEPT !.open = FALSE])]
       IN  IF exchange = "gdax"
           THEN /\ conns' = Append(closed, NewConn(exchange, Current.settings))
                /\ UNCHANGED adapter
           ELSE /\ conns' = closed
                /\ adapter' = "returned"
    /\ UNCHANGED <<exchange, frames, threads, poisoned, channel_out>>
    /\ UNCHANGED <<bookVars, workerVars, clientVars, codecVars>>

\* GDAX on_timeout: the EXPIRE timeout set in on_open fires, TimeoutSeconds
\* after it was set; the handler opens a new connection and leaves the one it
\* belongs to as it is.
OnTimeout ==
    /\ adapter = "running"
    /\ exchange = "gdax"
    /\ Current.open
    /\ Current.timer = "armed"
    /\ Current.elapsed = TimeoutSeconds
    /\ Len(conns) < MaxConns
    /\ conns' = Append([conns EXCEPT
                           ![Len(conns)] = Settled([@ EXCEPT !.timer = "fired"])],
                       NewConn(exchange, Current.settings))
    /\ UNCHANGED <<adapter, exchange, frames, threads, poisoned, channel_out>>
    /\ UNCHANGED <<bookVars, workerVars, clientVars, codecVars>>

\* Where the thread of a frame goes once serde_json::from_slice has returned.
AfterDecode(e, frame) ==
    IF ~frame.json THEN "dropped"                     \* Err(e) => println!
    ELSE IF e = "gdax"
    THEN IF frame.type = "l2update" THEN "build"      \* changes.is_some()
         ELSE IF frame.type = "match" THEN "lock"     \* "match" | "last_match"
         ELSE "done"                                  \* snapshot: nothing
    ELSE IF frame.type = "no_table" THEN "done"       \* table == "": return
         ELSE "build"

\* The thread of frame t deserializes it.
Decode(t) ==
    /\ threads[t] = "decode"
    /\ threads' = [threads EXCEPT ![t] = AfterDecode(exchange, frames[t])]
    /\ UNCHANGED <<adapter, exchange, conns, frames, poisoned, channel_out>>
    /\ UNCHANGED <<bookVars, workerVars, clientVars, codecVars>>

\* The thread of frame t builds its deltas, holding no lock: an absent or
\* unparseable field, or an unknown symbol, panics the thread.
Build(t) ==
    /\ threads[t] = "build"
    /\ threads' = [threads EXCEPT ![t] = IF frames[t].fields_ok THEN "lock"
                                                              ELSE "panicked"]
    /\ UNCHANGED <<adapter, exchange, conns, frames, poisoned, channel_out>>
    /\ UNCHANGED <<bookVars, workerVars, clientVars, codecVars>>

\* The thread of frame t takes the mutex of the pub/sub connection and
\* publishes: lock().unwrap() panics on a poisoned mutex; the GDAX match arm
\* builds its delta while it holds the guard, so a panic there poisons the
\* mutex; otherwise the batch is published and the guard dropped.
PublishUnderLock(t) ==
    /\ threads[t] = "lock"
    /\ IF poisoned
       THEN /\ threads' = [threads EXCEPT ![t] = "panicked"]
            /\ UNCHANGED <<poisoned, channel_out>>
       ELSE IF exchange = "gdax" /\ frames[t].type = "match" /\ ~frames[t].fields_ok
       THEN /\ threads' = [threads EXCEPT ![t] = "panicked"]
            /\ poisoned' = TRUE
            /\ UNCHANGED channel_out
       ELSE /\ threads' = [threads EXCEPT ![t] = "done"]
            /\ channel_out' = Append(channel_out, t)
            /\ UNCHANGED poisoned
    /\ UNCHANGED <<adapter, exchange, conns, frames>>
    /\ UNCHANGED <<bookVars, workerVars, clientVars, codecVars>>

\* A step of one of the per-frame worker threads.
ThreadStep ==
    \E t \in 1 .. Len(threads) : Decode(t) \/ Build(t) \/ PublishUnderLock(t)

AdapterNext ==
    Run \/ OnMessage \/ Elapse \/ OnClose \/ OnTimeout \/ ThreadStep

\* The adapter thread has been spawned; the book and the worker are at rest.
AdapterStart ==
    BookAtRest /\ WorkerInit /\ AdapterInit /\ ClientInit /\ CodecInit

\* Every spawned thread runs; so does the adapter thread once spawned.
AdapterSpec ==
    /\ AdapterStart
    /\ [][AdapterNext]_vars
    /\ WF_vars(ThreadStep)
    /\ WF_vars(Run)

\* ======================================================================
\* Properties of the exchange feed adapters
\* ======================================================================
\* C19: a frame that fails to decode drops only its own batch: the thread of
\* every well-formed frame runs to its end without panicking, whatever other
\* frames the connection carried and however the threads interleave, and the
\* batch of a well-formed frame that carries deltas is published.
C19_BadFrameDropsOnlyItself ==
    \A t \in 1 .. Len(frames) :
        WellFormed(frames[t]) =>
            /\ threads[t] \notin {"panicked", "dropped"}
            /\ (threads[t] = "done" /\ frames[t].type \in {"l2update", "match", "update"})
                  => \E k \in 1 .. Len(channel_out) : channel_out[k] = t

\* Connection i is closed.
Closed(i) == i <= Len(conns) /\ ~conns[i].open

\* A connection opened after connection i is open and subscribed, with the
\* settings connection i had.
Reopened(i) ==
    /\ i <= Len(conns)
    /\ \E j \in (i + 1) .. Len(conns) :
          /\ conns[j].open
          /\ conns[j].subscribed
          /\ conns[j].settings = conns[i].settings

\* C20: for every adapter, whenever its streaming connection closes the
\* adapter eventually opens a new connection with the same settings (host,
\* asset pairs, channels) and subscribes again.
C20_ReconnectsAfterClose ==
    \A i \in 1 .. MaxConns : Closed(i) ~> Reopened(i)

\* The step in which the timeout of the running connection fires and
\* on_timeout opens a new connection.
TimeoutReconnect ==
    /\ Len(conns) > 0
    /\ Len(conns') = Len(conns) + 1
    /\ conns[Len(conns)].timer = "armed"
    /\ conns'[Len(conns)].timer = "fired"

\* C21: the GDAX timeout is an inactivity timeout: a timeout-triggered
\* reconnect happens only when no frame has been received on the connection
\* for TimeoutSeconds; while frames keep arriving less than that apart, no
\* timeout fires.
C21_TimeoutOnlyWhenInactive ==
    [][TimeoutReconnect => Current.idle >= TimeoutSeconds]_vars

\* C22: per channel, batches reach the pub/sub channel in the order their
\* frames were received: of two frames received on one connection, the batch
\* of the later is never published before the batch of the earlier, however
\* the per-frame threads interleave.
C22_PublishedInReceiptOrder ==
    \A i \in 1 .. Len(channel_out) : \A j \in 1 .. Len(channel_out) :
        (i < j /\ frames[channel_out[i]].conn = frames[channel_out[j]].conn)
            => channel_out[i] < channel_out[j]

\* C27: the BitMEX adapter publishes no delta for a frame whose table is empty
\* or whose action is "partial" (the initial-state snapshot).
C27_BitmexSkipsPartial ==
    exchange = "bitmex" =>
        \A k \in 1 .. Len(channel_out) :
            frames[channel_out[k]].type \notin {"no_table", "partial"}

\* The connections of the adapter that are open.
OpenConns == {i \in 1 .. Len(conns) : conns[i].open}

\* C39: at any time a GDAX adapter instance has at most one open streaming
\* connection: when it reconnects on close or on timeout, the connection
\* before is closed before the new one is opened and subscribed, for any
\* number of successive reconnects.
C39_AtMostOneOpenConnection ==
    exchange = "gdax" =>
        /\ Cardinality(OpenConns) <= 1
        /\ \A i \in 1 .. Len(conns) - 1 : ~conns[i].open

\* ======================================================================
\* Tick-store client (orderbook/tectonic.rs)
\* ======================================================================
\* Largest number of client operations called on one connection.
MaxOps == 2
\* Largest number of deltas handed to one bulk_add or bulk_add_into.
MaxRecords == 1

\* The databases the callers name: {exchange}_{symbol}.
DbNames == {DbName("bitmex", "XBTUSD"), DbName("gdax", "ETHUSD")}

\* What one call of cmd meets on the socket.  write: TcpStream::write takes
\* every byte of the line ("all"), some of them ("part"), or fails ("err");
\* read: TcpStream::read returns or fails.
IoOutcomes ==
    {[write |-> "all",  read |-> "ok"],
     [write |-> "part", read |-> "ok"],
     [write |-> "err",  read |-> "ok"],
     [write |-> "all",  read |-> "err"]}

\* Result<_, Error>.
IoErr == [ok |-> FALSE, value |-> "io"]
IoOk(value) == [ok |-> TRUE, value |-> value]

\* A String is the sequence of its characters.
Empty == <<>>

\* cmd(command): one write of command + "\n", then one read into buf, a Vec::new() of
\* length 0, which takes no byte of whatever the server has sent; the value is
\* the text of buf.
cmd(conn, command, io) ==
    IF io.write = "err"
    THEN [connection |-> conn, result |-> IoErr]
    ELSE LET sent == Append(conn, [line |-> command, written |-> io.write])
         IN  IF io.read = "err"
             THEN [connection |-> sent, result |-> IoErr]
             ELSE [connection |-> sent, result |-> IoOk(Empty)]

\* result.chars().next().unwrap_or('0')
FirstChar(text) == IF text = Empty THEN "0" ELSE text[1]

\* exists: cmd("EXISTS {db_name}")?, then whether the text begins with '1'.
exists(conn, db_name, io) ==
    LET r == cmd(conn, <<"EXISTS", db_name>>, io)
    IN  IF ~r.result.ok
        THEN r
        ELSE [connection |-> r.connection,
              result     |-> IoOk(FirstChar(r.result.value) = "1")]

\* create: cmd("CREATE {db_name}").
create(conn, db_name, io) == cmd(conn, <<"CREATE", db_name>>, io)

\* The loop of bulk_add and bulk_add_into: one cmd per delta, its Result
\* dropped (let _ =).
RECURSIVE BulkRecords(_, _, _, _)
BulkRecords(conn, deltas, ios, i) ==
    IF i > Len(deltas)
    THEN conn
    ELSE BulkRecords(cmd(conn, <<"RECORD", deltas[i]>>, ios[i + 1]).connection,
                     deltas, ios, i + 1)

\* bulk_add_into: the header (its Result dropped), the records, and the
\* terminator, whose Result is the value of the call.  ios: what each of the
\* Len(deltas) + 2 calls of cmd meets.
bulk_add_into(conn, db_name, deltas, ios) ==
    LET header == cmd(conn, <<"BULKADD INTO", db_name>>, ios[1])
    IN  cmd(BulkRecords(header.connection, deltas, ios, 1),
            <<"DDAKLUB">>, ios[Len(deltas) + 2])

\* bulk_add: the same with the header BULKADD.
bulk_add(conn, deltas, ios) ==
    LET header == cmd(conn, <<"BULKADD">>, ios[1])
    IN  cmd(BulkRecords(header.connection, deltas, ios, 1),
            <<"DDAKLUB">>, ios[Len(deltas) + 2])

\* The operations that are cmd with a fixed line: ping, flush_all, ...
SimpleLines == {<<"PING">>, <<"FLUSH ALL">>}

\* The batches handed to the bulk operations.
BulkBatches == SeqsUpTo({"XBTUSD"}, MaxRecords)

\* What the log keeps of one call: the operation, its argument, the lines of
\* connection it wrote (first .. last), what its calls of cmd met, the client
\* calls it made, and its value.
Call(op, arg, conn, r, ios, made) ==
    [op |-> op, arg |-> arg, first |-> Len(conn) + 1, last |-> Len(r.connection),
     io |-> ios, made |-> made, result |-> r.result]

\* One more operation may be called.
MayCall == Len(returned) < MaxOps

\* ping(), flush_all() and the like.
Simple ==
    /\ MayCall
    /\ \E line \in SimpleLines : \E io \in IoOutcomes :
          LET r == cmd(connection, line, io)
          IN  /\ connection' = r.connection
              /\ returned' = Append(returned,
                     Call("cmd", line, connection, r, <<io>>, <<"cmd">>))
    /\ UNCHANGED <<served, replies, databases>>
    /\ UNCHANGED <<bookVars, workerVars, adapterVars, codecVars>>

\* exists(db_name).
Exists ==
    /\ MayCall
    /\ \E db_name \in DbNames : \E io \in IoOutcomes :
          LET r == exists(connection, db_name, io)
          IN  /\ connection' = r.connection
              /\ returned' = Append(returned,
                     Call("exists", db_name, connection, r, <<io>>, <<"exists">>))
    /\ UNCHANGED <<served, replies, databases>>
    /\ UNCHANGED <<bookVars, workerVars, adapterVars, codecVars>>

\* create(db_name).
Create ==
    /\ MayCall
    /\ \E db_name \in DbNames : \E io \in IoOutcomes :
          LET r == create(connection, db_name, io)
          IN  /\ connection' = r.connection
              /\ returned' = Append(returned,
                     Call("create", db_name, connection, r, <<io>>, <<"create">>))
    /\ UNCHANGED <<served, replies, databases>>
    /\ UNCHANGED <<bookVars, workerVars, adapterVars, codecVars>>

\* bulk_add(&deltas).
BulkAdd ==
    /\ MayCall
    /\ \E deltas \in BulkBatches : \E ios \in [1 .. Len(deltas) + 2 -> IoOutcomes] :
          LET r == bulk_add(connection, deltas, ios)
          IN  /\ connection' = r.connection
              /\ returned' = Append(returned,
                     Call("bulk_add", deltas, connection, r, ios, <<"bulk_add">>))
    /\ UNCHANGED <<served, replies, databases>>
    /\ UNCHANGED <<bookVars, workerVars, adapterVars, codecVars>>

\* bulk_add_into(db_name, &deltas).
BulkAddInto ==
    /\ MayCall
    /\ \E db_name \in DbNames : \E deltas \in BulkBatches :
       \E ios \in [1 .. Len(deltas) + 2 -> IoOutcomes] :
          LET r == bulk_add_into(connection, db_name, deltas, ios)
          IN  /\ connection' = r.connection
              /\ returned' = Append(returned,
                     Call("bulk_add_into", <<db_name, deltas>>, connection, r, ios,
                          <<"bulk_add_into">>))
    /\ UNCHANGED <<served, replies, databases>>
    /\ UNCHANGED <<bookVars, workerVars, adapterVars, codecVars>>

\* The database loop of an adapter's on_open, for one database:
\*   if !self.tectonic.exists(db_name)? { let _ = self.tectonic.create(db_name); }
\* The ? returns the error of exists from on_open; the Result of create is
\* dropped and on_open goes on.
ensure_database(conn, db_name, ios) ==
    LET e == exists(conn, db_name, ios[1])
    IN  IF ~e.result.ok
        THEN [connection |-> e.connection, result |-> IoErr, made |-> <<"exists">>]
        ELSE IF ~e.result.value
        THEN [connection |-> create(e.connection, db_name, ios[2]).connection,
              result     |-> IoOk("on"),
              made       |-> <<"exists", "create">>]
        ELSE [connection |-> e.connection, result |-> IoOk("on"),
              made       |-> <<"exists">>]

\* An adapter's on_open reaches its database loop.
OnOpen ==
    /\ MayCall
    /\ \E db_name \in DbNames : \E ios \in [1 .. 2 -> IoOutcomes] :
          LET r == ensure_database(connection, db_name, ios)
          IN  /\ connection' = r.connection
              /\ returned' = Append(returned,
                     Call("on_open", db_name, connection, r, ios, r.made))
    /\ UNCHANGED <<served, replies, databases>>
    /\ UNCHANGED <<bookVars, workerVars, adapterVars, codecVars>>

\* The text the server answers a complete line with.
ReplyText(line, dbs) ==
    IF line[1] = "EXISTS"
    THEN IF line[2] \in dbs THEN <<"1">> ELSE <<"0">>
    ELSE <<"O", "K">>

\* The server deals with the next line the connection carried.  A line whose
\* newline never came gets no reply of its own: the bytes of the next write
\* run on from it, and that line is answered as an unknown command.
Serve ==
    /\ served < Len(connection)
    /\ served' = served + 1
    /\ LET k      == served + 1
           line   == connection[k].line
           whole  == connection[k].written = "all"
           joined == k > 1 /\ connection[k - 1].written = "part"
       IN  IF ~whole
           THEN UNCHANGED <<replies, databases>>
           ELSE IF joined
           THEN /\ replies' = Append(replies, [to |-> k, text |-> <<"E", "R", "R">>])
                /\ UNCHANGED databases
           ELSE /\ replies' = Append(replies,
                       [to |-> k, text |-> ReplyText(line, databases)])
                /\ databases' = IF line[1] = "CREATE"
                                THEN databases \cup {line[2]}
                                ELSE databases
    /\ UNCHANGED <<connection, returned>>
    /\ UNCHANGED <<bookVars, workerVars, adapterVars, codecVars>>

ClientNext ==
    Simple \/ Exists \/ Create \/ BulkAdd \/ BulkAddInto \/ OnOpen \/ Serve

\* The connection is established; everything else is at rest.
ClientStart ==
    BookAtRest /\ WorkerInit /\ AdapterInit /\ ClientInit /\ CodecInit

ClientSpec == ClientStart /\ [][ClientNext]_vars

\* ======================================================================
\* Properties of the tick-store client
\* ======================================================================
\* The operations that are one call of cmd.
OneCommand == {"cmd", "create", "exists"}

\* The write or the read of one call of cmd failed.
Failed(io) == io.write = "err" \/ io.read = "err"

\* C23: each command call writes the command line and returns the server's
\* reply to that same command: a call that returned Ok has the reply to its
\* own line for its value, and exists(db) is true exactly when the reply to
\* its EXISTS begins with '1'.
C23_CommandReturnsItsReply ==
    \A k \in 1 .. Len(returned) :
        LET c == returned[k]
        IN  (c.op \in OneCommand /\ c.result.ok) =>
                \E j \in 1 .. Len(replies) :
                    /\ replies[j].to = c.first
                    /\ c.result.value = IF c.op = "exists"
                                        THEN replies[j].text[1] = "1"
                                        ELSE replies[j].text

\* What the exists of an on_open got from cmd.
Probe(c) ==
    cmd(SubSeq(connection, 1, c.first - 1), <<"EXISTS", c.arg>>, c.io[1]).result

\* A reply that says neither '1' nor '0'.
Unparseable(text) == text = Empty \/ text[1] \notin {"0", "1"}

\* C24: when the EXISTS check of an on_open fails with an I/O error or gets
\* an unparseable reply, the database is taken to be absent: on_open goes on
\* to call create for it and does not end in the error.
C24_ExistsFailureProceedsToCreate ==
    \A k \in 1 .. Len(returned) :
        LET c == returned[k]
        IN  (/\ c.op = "on_open"
             /\ (~Probe(c).ok \/ Unparseable(Probe(c).value)))
                => (c.made = <<"exists", "create">> /\ c.result.ok)

\* C25: a partial write is retried: whenever a command call returns Ok,
\* every byte of its line, the newline included, has been written.
C25_PartialWriteRetried ==
    \A k \in 1 .. Len(returned) :
        LET c == returned[k]
        IN  (c.op \in OneCommand /\ c.result.ok) =>
                /\ c.last = c.first
                /\ connection[c.first].written = "all"

\* The operations of TectonicConnection.
ClientOps == OneCommand \cup {"bulk_add", "bulk_add_into"}

\* C26: every operation of the client surfaces I/O errors: if a write or a
\* read it performed failed, it returned an error; so do bulk_add and
\* bulk_add_into when sending the header or a record failed.
C26_IoErrorsSurface ==
    \A k \in 1 .. Len(returned) :
        LET c == returned[k]
        IN  (c.op \in ClientOps /\ \E i \in 1 .. Len(c.io) : Failed(c.io[i]))
                => ~c.result.ok

\* ======================================================================
\* Conversions of the adapters (exchange/mod.rs, bitmex.rs, gdax_l2.rs)
\* ======================================================================
\* Largest number of entries (data, changes) one frame carries.
MaxEntries == 2
\* 100000000, the ids BitMEX sets aside per instrument, and 8800000000, the
\* base of XBTUSD.  Ids are counted in millions here.
IdsPerIndex == 100
XbtBase == 8800

\* enum Exchange.
ExchangeTags == {"Poloniex", "GDAX", "BitMEX"}

\* enum Asset, by discriminant: BTC = 0, ETH, LTC, USDT, USD, JPY, ...
AssetNames ==
    << <<"B", "T", "C">>, <<"E", "T", "H">>, <<"L", "T", "C">>,
       <<"U", "S", "D", "T">>, <<"U", "S", "D">>, <<"J", "P", "Y">>,
       <<"C", "N", "Y">>, <<"K", "R", "W">>, <<"E", "U", "R">>,
       <<"G", "B", "P">>, <<"C", "A", "D">>, <<"A", "U", "D">> >>

Asset == 0 .. Len(AssetNames) - 1

\* #[derive(AsStaticStr)]: the name of the variant, a String (the sequence of
\* its characters).
as_static(asset) == AssetNames[asset + 1]

market_first(exch) ==
    IF exch = "BitMEX" THEN FALSE ELSE TRUE

asset_separator(exch) ==
    IF exch = "BitMEX" THEN <<>> ELSE <<"-">>

\* normalize_asset: the ticker of the asset on the exchange, if it has one.
normalize_asset(exch, asset) ==
    LET name == as_static(asset)
    IN  IF exch = "Poloniex"
        THEN IF name \in {<<"B", "T", "C">>, <<"E", "T", "H">>, <<"L", "T", "C">>,
                          <<"U", "S", "D", "T">>}
             THEN Some(name) ELSE None
        ELSE IF exch = "GDAX"
        THEN IF name \in {<<"B", "T", "C">>, <<"E", "T", "H">>, <<"L", "T", "C">>}
             THEN Some(name) ELSE None
        ELSE IF name = <<"B", "T", "C">> THEN Some(<<"X", "B", "T">>)
             ELSE IF name \in {<<"E", "T", "H">>, <<"L", "T", "C">>, <<"U", "S", "D">>}
             THEN Some(name) ELSE None

\* get_asset_pair(assets, exch): assets[0] and assets[1] of the source are
\* assets[1] and assets[2] here.
get_asset_pair(assets, exch) ==
    IF market_first(exch)
    THEN as_static(assets[1]) \o asset_separator(exch) \o as_static(assets[2])
    ELSE as_static(assets[2]) \o asset_separator(exch) \o as_static(assets[1])

\* The build of the binary: arithmetic overflow panics in a debug build and
\* wraps in a release build.
Builds == {"debug", "release"}

\* a - b in u64.  The value is carry * 2^64 + rest: the difference itself
\* when it is not negative, the difference plus 2^64 when it wraps.
sub_u64(a, b, build) ==
    IF b <= a
    THEN [panic |-> FALSE, carry |-> 0, rest |-> a - b]
    ELSE IF build = "debug"
    THEN [panic |-> TRUE,  carry |-> 0, rest |-> 0]
    ELSE [panic |-> FALSE, carry |-> 1, rest |-> a - b]

\* The instrument table the HTTP GET of on_open returns: symbol and tickSize
\* (in hundredths), in the order of the response.
Instruments ==
    << [symbol |-> "LTCUSD", tickSize |-> 1],
       [symbol |-> "ETHUSD", tickSize |-> 5],
       [symbol |-> "XBTUSD", tickSize |-> 50] >>

TableSymbols == {Instruments[i].symbol : i \in 1 .. Len(Instruments)}

\* asset_indexes and asset_tick_size as on_open fills them:
\* for (index, asset) in response.iter().enumerate().
asset_indexes(symbol) ==
    (CHOOSE i \in 1 .. Len(Instruments) : Instruments[i].symbol = symbol) - 1

asset_tick_size(symbol) ==
    Instruments[asset_indexes(symbol) + 1].tickSize

\* The ids frames carry (in millions): about the bases of the instruments of
\* the table and about the base of XBTUSD.
Ids == {0, 1, IdsPerIndex, IdsPerIndex + 1, XbtBase, XbtBase + 1}

\* The event flags of orderbook/mod.rs: the kinds and the sides.
INSERT == 1
REMOVE == 2
UPDATE == 4
TRADE == 8
ASK == 16
BID == 32

\* a ^ b and a & b on u8, bit by bit from the lowest.
RECURSIVE bitxor(_, _)
bitxor(a, b) ==
    IF a = 0 /\ b = 0
    THEN 0
    ELSE (((a % 2) + (b % 2)) % 2) + 2 * bitxor(a \div 2, b \div 2)

RECURSIVE bitand(_, _)
bitand(a, b) ==
    IF a = 0 \/ b = 0
    THEN 0
    ELSE ((a % 2) * (b % 2)) + 2 * bitand(a \div 2, b \div 2)

\* BitMEXData: symbol, side, id and size (size in whole units; price, which
\* the handler never reads, is left out).
\* The ids drawn for a symbol are 0, the base of the symbol and the id next
\* above it.
IdBase(symbol) ==
    IF symbol = "XBTUSD" THEN XbtBase ELSE IdsPerIndex * asset_indexes(symbol)

BitmexEntries ==
    {e \in [symbol : TableSymbols, side : {"Buy", "Sell"},
            id : {None} \cup {Some(k) : k \in Ids}, size : {None, Some(5)}] :
        IsSome(e.id) =>
            Unwrap(e.id) \in {0, IdBase(e.symbol), IdBase(e.symbol) + 1}}

\* The Delta of one entry with an id, in a frame of the given action.  price
\* is the tick count times the tick size (in hundredths; 0.01 on the fast path
\* of XBTUSD); seq is 0; ts, the time of receipt, is left out.
bitmex_delta(update, action, build) ==
    LET is_bid   == IF update.side = "Buy" THEN BID ELSE ASK
        is_trade == IF action = "Trade" THEN TRADE ELSE UPDATE
        ticks == IF update.symbol = "XBTUSD"
                 THEN sub_u64(XbtBase, Unwrap(update.id), build)
                 ELSE sub_u64(IdsPerIndex * asset_indexes(update.symbol),
                              Unwrap(update.id), build)
    IN  [panic  |-> ticks.panic,
         symbol |-> update.symbol,
         price  |-> [ticks     |-> [carry |-> ticks.carry, rest |-> ticks.rest],
                     tick_size |-> IF update.symbol = "XBTUSD"
                                   THEN 1
                                   ELSE asset_tick_size(update.symbol)],
         size   |-> IF IsSome(update.size) THEN Unwrap(update.size) ELSE 0,
         seq    |-> 0,
         event  |-> bitxor(is_bid, is_trade)]

\* The loop of the BitMEX on_message thread over message.data from entry i on,
\* deltas being the batch so far: entries without id are passed over.
RECURSIVE bitmex_deltas(_, _, _, _, _)
bitmex_deltas(data, action, build, i, deltas) ==
    IF i > Len(data)
    THEN [panic |-> FALSE, value |-> deltas]
    ELSE IF data[i].id = None
    THEN bitmex_deltas(data, action, build, i + 1, deltas)
    ELSE LET delta == bitmex_delta(data[i], action, build)
         IN  IF delta.panic
             THEN [panic |-> TRUE, value |-> <<>>]
             ELSE bitmex_deltas(data, action, build, i + 1,
                      Append(deltas, [symbol |-> delta.symbol,
                                      price  |-> delta.price,
                                      size   |-> delta.size,
                                      seq    |-> delta.seq,
                                      event  |-> delta.event]))

\* The characters of the decimal digits, by value.
DigitChars == <<"0", "1", "2", "3", "4", "5", "6", "7", "8", "9">>

IsDigit(c) == \E d \in 1 .. Len(DigitChars) : DigitChars[d] = c

DigitValue(c) == (CHOOSE d \in 1 .. Len(DigitChars) : DigitChars[d] = c) - 1

\* The number a string of digits writes, after the digits read so far.
RECURSIVE Decimal(_, _)
Decimal(s, acc) ==
    IF s = <<>> THEN acc ELSE Decimal(Tail(s), 10 * acc + DigitValue(Head(s)))

\* str::parse::<f32>() of a string of digits with at most one point and at
\* most two digits after it, in hundredths; None is the Err of any other
\* string drawn here.
parse_f32(s) ==
    LET dots  == {i \in 1 .. Len(s) : s[i] = "."}
        point == IF dots = {} THEN Len(s) + 1 ELSE CHOOSE i \in dots : TRUE
        whole == SubSeq(s, 1, point - 1)
        frac  == SubSeq(s, point + 1, Len(s))
    IN  IF \/ Cardinality(dots) > 1
           \/ \E i \in 1 .. Len(s) : ~IsDigit(s[i]) /\ s[i] # "."
           \/ Len(whole) + Len(frac) = 0
           \/ Len(frac) > 2
        THEN None
        ELSE Some(100 * Decimal(whole, 0)
                    + (IF Len(frac) = 1 THEN 10 ELSE 1) * Decimal(frac, 0))

\* Utc.datetime_from_str(&time, "%Y-%m-%dT%H:%M:%S.%<digits>fZ") followed by
\* timestamp_millis(): the fraction must have exactly that many digits.  A
\* time is known by its whole seconds and the digits of its fraction.
RECURSIVE Pow10(_)
Pow10(n) == IF n = 0 THEN 1 ELSE 10 * Pow10(n - 1)

timestamp_millis(time, digits) ==
    IF Len(time.frac) = digits /\ \A i \in 1 .. Len(time.frac) : IsDigit(time.frac[i])
    THEN Some(1000 * time.secs + (Decimal(time.frac, 0) \div Pow10(digits - 3)))
    ELSE None

\* n as u32, n being a u128 written hi * 2^32 + lo.
as_u32(n) == n.lo

\* gdax_side with the sides exchanged.
gdax_side_exchanged(side) == IF side = "buy" THEN ASK ELSE BID

\* The side flag of a GDAX side string.
gdax_side(side) == IF side = "buy" THEN BID ELSE ASK

\* The loop of the GDAX on_message thread over message.changes:
\* seq = 1; for update in changes { push(Delta { seq, .. }); seq += 1 }.
\* Each unwrap of a parse that failed panics the thread.
RECURSIVE gdax_changes(_, _, _, _)
gdax_changes(frame, changes, seq, deltas) ==
    IF seq > Len(changes)
    THEN [panic |-> FALSE, published |-> TRUE, value |-> deltas]
    ELSE LET update == changes[seq]
             price  == parse_f32(update[2])
             size   == parse_f32(update[3])
             ts     == timestamp_millis(frame.time, 3)
         IN  IF price = None \/ size = None \/ ts = None
             THEN [panic |-> TRUE, published |-> FALSE, value |-> <<>>]
             ELSE gdax_changes(frame, changes, seq + 1,
                      Append(deltas,
                             [symbol |-> frame.product_id,
                              price  |-> Unwrap(price),
                              size   |-> Unwrap(size),
                              seq    |-> seq,
                              event  |-> bitxor(gdax_side(update[1]),
                                                IF Unwrap(size) = 0
                                                THEN REMOVE ELSE UPDATE),
                              ts     |-> Unwrap(ts)]))

\* The thread of a GDAX frame: the batch of the changes when the frame has
\* changes, else the one Delta of a match or last_match, else nothing.
gdax_deltas(frame) ==
    IF IsSome(frame.changes)
    THEN gdax_changes(frame, Unwrap(frame.changes), 1, <<>>)
    ELSE IF frame.type \in {"match", "last_match"}
    THEN IF \/ frame.price = None \/ frame.size = None
            \/ frame.sequence = None \/ frame.side = None
         THEN [panic |-> TRUE, published |-> FALSE, value |-> <<>>]
         ELSE LET price == parse_f32(Unwrap(frame.price))
                  size  == parse_f32(Unwrap(frame.size))
                  ts    == timestamp_millis(frame.time, 6)
              IN  IF price = None \/ size = None \/ ts = None
                  THEN [panic |-> TRUE, published |-> FALSE, value |-> <<>>]
                  ELSE [panic |-> FALSE, published |-> TRUE,
                        value |-> <<[symbol |-> frame.product_id,
                                     price  |-> Unwrap(price),
                                     size   |-> Unwrap(size),
                                     seq    |-> as_u32(Unwrap(frame.sequence)),
                                     event  |-> bitxor(gdax_side(Unwrap(frame.side)),
                                                       TRADE),
                                     ts     |-> Unwrap(ts)]>>]
    ELSE [panic |-> FALSE, published |-> FALSE, value |-> <<>>]

\* Largest number of pairs in metadata.asset_pair.
MaxPairs == 2

\* The assets the pairs of the settings are made of: BTC, ETH, USD, JPY.
ConfiguredAssets == {0, 1, 4, 5}

\* dual_channels of the BitMEX default settings.
dual_channels == <<"orderBookL2", "trade">>

\* on_open of the GDAX handler on a tick store that answers: for each pair of
\* metadata.asset_pair the database it looks up and creates when absent, and
\* the product id it pushes to the subscribe message.
gdax_on_open(pairs) ==
    [databases  |-> [i \in 1 .. Len(pairs) |->
                        DbName("gdax", get_asset_pair(pairs[i], "GDAX"))],
     subscribed |-> [i \in 1 .. Len(pairs) |->
                        [key |-> "product_ids",
                         pair |-> get_asset_pair(pairs[i], "GDAX")]]]

\* on_open of the BitMEX handler on a tick store that answers: the argument
\* format!("{}:{}", key, pair) it pushes for each dual channel and each pair,
\* and the database it looks up and creates when absent for each instrument
\* of the table.
bitmex_on_open(pairs) ==
    [databases  |-> [i \in 1 .. Len(Instruments) |->
                        DbName("bitmex", Instruments[i].symbol)],
     subscribed |-> [k \in 1 .. Len(dual_channels) * Len(pairs) |->
                        [key  |-> dual_channels[((k - 1) \div Len(pairs)) + 1],
                         pair |-> get_asset_pair(pairs[((k - 1) % Len(pairs)) + 1],
                                                 "BitMEX")]]]

\* The arguments of the calls.
PairInputs == [kind : {"pair"}, assets : Asset \X Asset, exch : ExchangeTags]

OpenInputs ==
    [kind : {"open"}, exch : {"GDAX", "BitMEX"},
     pairs : SeqsUpTo(ConfiguredAssets \X ConfiguredAssets, MaxPairs)]

BitmexInputs ==
    [kind : {"bitmex"}, action : {"update", "delete", "Trade"},
     data : SeqsUpTo(BitmexEntries, MaxEntries)]

\* The strings and times GDAX frames carry: prices, sizes (one of them no
\* number), times with the fraction in milliseconds and in microseconds,
\* sequences below and above 2^32.
PriceStrings == {<<"9", "0">>, <<"9", "1">>}
SizeStrings == {<<"0">>, <<"0", ".", "0", "0">>, <<"0", ".", "5">>, <<"x">>}
Times == [secs : {1}, frac : {<<"2", "6", "5">>, <<"0", "2", "8", "4", "5", "9">>}]
Sequences == [hi : {0, 1}, lo : {1, 7}]

\* One entry of changes: (side, price, size).
Changes == {"buy", "sell"} \X PriceStrings \X SizeStrings

\* EventMessage: an l2update, a match or last_match, or any other frame.
GdaxInputs ==
    [kind : {"gdax"}, type : {"l2update"}, product_id : {"BTC-USD"}, time : Times,
     changes : {Some(c) : c \in SeqsUpTo(Changes, MaxEntries)},
     side : {None}, price : {None}, size : {None}, sequence : {None}]
      \cup [kind : {"gdax"}, type : {"match", "last_match"},
            product_id : {"BTC-USD"}, time : Times, changes : {None},
            side : {Some("buy"), Some("sell")},
            price : {Some(p) : p \in PriceStrings},
            size : {Some(z) : z \in SizeStrings},
            sequence : {Some(n) : n \in Sequences}]
      \cup [kind : {"gdax"}, type : {"subscriptions"}, product_id : {"BTC-USD"},
            time : Times, changes : {None}, side : {None}, price : {None},
            size : {None}, sequence : {None}]

CodecInputs == PairInputs \cup BitmexInputs \cup GdaxInputs \cup OpenInputs

\* The 't' or 'f' a flag of a tick-store record is written as.
Flag(b) == IF b THEN "t" ELSE "f"

\* insert_into with the mask of the other side for is_bid.
insert_into_ask_mask(db_name, delta) ==
    [seq      |-> delta.seq,
     is_trade |-> Flag(bitand(delta.event, TRADE) = TRADE),
     is_bid   |-> Flag(bitand(delta.event, ASK) = ASK),
     price    |-> delta.price,
     size     |-> delta.size,
     into     |-> db_name]

\* TectonicConnection::insert_into(db_name, delta): the fields of the line
\* "INSERT {ts}, {seq}, {is_trade}, {is_bid}, {price}, {size}; INTO {db_name}".
insert_into(db_name, delta) ==
    [seq      |-> delta.seq,
     is_trade |-> Flag(bitand(delta.event, TRADE) = TRADE),
     is_bid   |-> Flag(bitand(delta.event, BID) = BID),
     price    |-> delta.price,
     size     |-> delta.size,
     into     |-> db_name]

\* The persistence worker receives the batch published on the channel of
\* the adapter and inserts delta after delta into {channel}_{symbol}.
InsertBatch ==
    /\ input.kind \in {"bitmex", "gdax"}
    /\ output.done
    /\ output.value # <<>>
    /\ records = <<>>
    /\ records' = [j \in 1 .. Len(output.value) |->
                      insert_into(DbName(IF input.kind = "gdax"
                                         THEN "gdax" ELSE "bitmex",
                                         output.value[j].symbol),
                                  output.value[j])]
    /\ UNCHANGED <<input, output>>
    /\ UNCHANGED <<bookVars, workerVars, adapterVars, clientVars>>

\* exchange::get_asset_pair(pair, exch) is called.
GetAssetPair ==
    /\ input.kind = "pair"
    /\ ~output.done
    /\ output' = [done |-> TRUE, panic |-> FALSE,
                  value |-> get_asset_pair(input.assets, input.exch)]
    /\ UNCHANGED <<input, records>>
    /\ UNCHANGED <<bookVars, workerVars, adapterVars, clientVars>>

\* The thread of a BitMEX frame builds the batch it is about to publish.
BitmexBatch ==
    /\ input.kind = "bitmex"
    /\ ~output.done
    /\ \E build \in Builds :
          LET r == bitmex_deltas(input.data, input.action, build, 1, <<>>)
          IN  output' = [done |-> TRUE, panic |-> r.panic, value |-> r.value]
    /\ UNCHANGED <<input, records>>
    /\ UNCHANGED <<bookVars, workerVars, adapterVars, clientVars>>

\* The thread of a GDAX frame builds the batch it is about to publish.
GdaxBatch ==
    /\ input.kind = "gdax"
    /\ ~output.done
    /\ LET r == gdax_deltas(input)
       IN  output' = [done |-> TRUE, panic |-> r.panic, value |-> r.value,
                      published |-> r.published]
    /\ UNCHANGED <<input, records>>
    /\ UNCHANGED <<bookVars, workerVars, adapterVars, clientVars>>

\* The connection is open: on_open ensures the databases and sends the
\* subscription frame.
Opened ==
    /\ input.kind = "open"
    /\ ~output.done
    /\ output' = [done |-> TRUE, panic |-> FALSE,
                  value |-> IF input.exch = "GDAX"
                            THEN gdax_on_open(input.pairs)
                            ELSE bitmex_on_open(input.pairs)]
    /\ UNCHANGED <<input, records>>
    /\ UNCHANGED <<bookVars, workerVars, adapterVars, clientVars>>

CodecNext == GetAssetPair \/ BitmexBatch \/ GdaxBatch \/ Opened \/ InsertBatch

\* One call is about to be made, with any of the arguments.
CodecStart ==
    /\ BookAtRest /\ WorkerInit /\ AdapterInit /\ ClientInit
    /\ input \in CodecInputs
    /\ output = NotCalled
    /\ records = <<>>

CodecSpec == CodecStart /\ [][CodecNext]_vars

\* ======================================================================
\* Properties of the conversions
\* ======================================================================
\* The entries of a frame that have an id.
RECURSIVE WithId(_)
WithId(data) ==
    IF data = <<>> THEN <<>>
    ELSE IF Head(data).id = None THEN WithId(Tail(data))
    ELSE <<Head(data)>> \o WithId(Tail(data))

\* The price of the claim: the exact difference times the tick size.
RecoveredPrice(update) ==
    IF update.symbol = "XBTUSD"
    THEN [ticks     |-> [carry |-> 0, rest |-> XbtBase - Unwrap(update.id)],
          tick_size |-> 1]
    ELSE [ticks     |-> [carry |-> 0,
                         rest  |-> IdsPerIndex * asset_indexes(update.symbol)
                                      - Unwrap(update.id)],
          tick_size |-> asset_tick_size(update.symbol)]

\* C28: BitMEX price recovery: for a data entry with id = k, the price is
\* (8_800_000_000 - k) x 0.01 if the symbol is XBTUSD and
\* (100_000_000 x asset_index[symbol] - k) x asset_tick_size[symbol] for any
\* other symbol of the instrument table; the tick count in the parentheses is
\* the exact difference for every id and index the adapter processes.
C28_BitmexPriceRecovery ==
    (input.kind = "bitmex" /\ output.done) =>
        /\ ~output.panic
        /\ Len(output.value) = Len(WithId(input.data))
        /\ \A j \in 1 .. Len(output.value) :
              output.value[j].price = RecoveredPrice(WithId(input.data)[j])

\* C29: in every batch an adapter publishes, the seq values of the deltas are
\* strictly increasing in array order: the exchange's own where it provides
\* one (the sequence of a GDAX match), otherwise 1..N for the N deltas.
C29_SeqIncreasesWithinBatch ==
    (input.kind \in {"bitmex", "gdax"} /\ output.done /\ ~output.panic) =>
        /\ \A i \in 1 .. Len(output.value) : \A j \in 1 .. Len(output.value) :
              i < j => output.value[i].seq < output.value[j].seq
        /\ IF input.kind = "gdax" /\ input.type = "match"
           THEN [hi |-> 0, lo |-> output.value[1].seq] = Unwrap(input.sequence)
           ELSE \A i \in 1 .. Len(output.value) : output.value[i].seq = i

\* Both assets of the pair have a ticker on the exchange.
SupportedPair(assets, exch) ==
    /\ IsSome(normalize_asset(exch, assets[1]))
    /\ IsSome(normalize_asset(exch, assets[2]))

\* The two exchange-local tickers joined by the separator of the exchange, in
\* the order market_first selects.
LocalRendering(assets, exch) ==
    LET first  == IF market_first(exch) THEN assets[1] ELSE assets[2]
        second == IF market_first(exch) THEN assets[2] ELSE assets[1]
    IN  Unwrap(normalize_asset(exch, first)) \o asset_separator(exch)
            \o Unwrap(normalize_asset(exch, second))

\* C30: pair rendering: for every exchange and every pair whose two assets
\* normalize_asset supports on it, the rendered pair is the two
\* exchange-local tickers joined by the exchange's separator in the order
\* market_first selects.
C30_PairRendering ==
    (/\ input.kind = "pair"
     /\ output.done
     /\ SupportedPair(input.assets, input.exch))
        => output.value = LocalRendering(input.assets, input.exch)

\* The channel of the adapter of an exchange.
ChannelOf(exch) == IF exch = "GDAX" THEN "gdax" ELSE "bitmex"

\* The subscription frame names the pair.
InFrame(opened, pair) ==
    \E k \in 1 .. Len(opened.subscribed) : opened.subscribed[k].pair = pair

\* A database was looked up or created for the pair.
HasDatabase(opened, exch, pair) ==
    \E k \in 1 .. Len(opened.databases) :
        opened.databases[k] = DbName(ChannelOf(exch), pair)

\* C31: when normalize_asset returns None for an asset of a configured pair on
\* an exchange, the adapter skips that pair (it is not put in the subscription
\* frame and no tick-store database is created for it) and carries on with the
\* remaining pairs without aborting: the pairs it supports are subscribed.
C31_UnsupportedPairSkipped ==
    (input.kind = "open" /\ output.done) =>
        /\ ~output.panic
        /\ \A i \in 1 .. Len(input.pairs) :
              LET pair == get_asset_pair(input.pairs[i], input.exch)
              IN  IF SupportedPair(input.pairs[i], input.exch)
                  THEN InFrame(output.value, pair)
                  ELSE /\ ~InFrame(output.value, pair)
                       /\ ~HasDatabase(output.value, input.exch, pair)

SideFlags == {ASK, BID}
KindFlags == {INSERT, REMOVE, UPDATE, TRADE}

\* The bit of the flag is set in the event.
HasBit(event, flag) == (event \div flag) % 2 = 1

\* C32: every delta an adapter produces carries an event built as side ^ kind
\* with exactly one side bit (ASK or BID) and exactly one kind bit (INSERT,
\* REMOVE, UPDATE or TRADE) set, and masking decodes it back: the tick-store
\* record's is_bid flag is 't' exactly when the side is BID and its is_trade
\* flag is 't' exactly when the kind is TRADE.
C32_EventEncodesSideAndKind ==
    (input.kind \in {"bitmex", "gdax"} /\ output.done /\ records # <<>>) =>
        \A j \in 1 .. Len(output.value) :
            LET delta  == output.value[j]
                sides  == {f \in SideFlags : HasBit(delta.event, f)}
                kinds  == {f \in KindFlags : HasBit(delta.event, f)}
                record == records[j]
            IN  /\ Cardinality(sides) = 1
                /\ Cardinality(kinds) = 1
                /\ \E side \in sides, kind \in kinds :
                      delta.event = bitxor(side, kind)
                /\ record.is_bid = "t" <=> BID \in sides
                /\ record.is_bid = "f" <=> ASK \in sides
                /\ record.is_trade = "t" <=> TRADE \in kinds
                /\ record.is_trade = "f" <=> TRADE \notin kinds

\* C32 witness: the batch of an l2update with a removal on the bid side and an
\* update on the ask side, and that of a BitMEX trade.
C32_Witness ==
    /\ output.done
    /\ \/ /\ input.kind = "gdax"
          /\ Len(output.value) = 2
          /\ output.value[1].event = BID + REMOVE
          /\ output.value[2].event = ASK + UPDATE
          /\ Len(records) = 2
          /\ records[1].is_bid = "t" /\ records[2].is_bid = "f"
       \/ /\ input.kind = "bitmex"
          /\ Len(output.value) = 1
          /\ output.value[1].event = BID + TRADE
          /\ Len(records) = 1
          /\ records[1].is_trade = "t"

\* C33: BitMEX normalization: for each data entry of a non-skipped frame that
\* has an id, exactly one delta is produced, in entry order, with side BID
\* when side is "Buy" and ASK otherwise, kind TRADE when the frame's action is
\* "Trade" and UPDATE otherwise, event = side ^ kind, and size equal to the
\* provided size or 0.0 when absent; entries without an id produce no delta.
C33_BitmexNormalization ==
    (input.kind = "bitmex" /\ output.done) =>
        LET entries == WithId(input.data)
        IN  /\ Len(output.value) = Len(entries)
            /\ \A j \in 1 .. Len(output.value) :
                  LET side == IF entries[j].side = "Buy" THEN BID ELSE ASK
                      kind == IF input.action = "Trade" THEN TRADE ELSE UPDATE
                  IN  /\ output.value[j].symbol = entries[j].symbol
                      /\ output.value[j].event = bitxor(side, kind)
                      /\ output.value[j].event = side + kind
                      /\ output.value[j].size = IF entries[j].size = None
                                                THEN 0
                                                ELSE Unwrap(entries[j].size)

\* The strings of an l2update are what the level2 channel sends: decimal
\* numbers, and a time with the fraction in milliseconds.
WellFormedL2(frame) ==
    /\ IsSome(timestamp_millis(frame.time, 3))
    /\ \A i \in 1 .. Len(Unwrap(frame.changes)) :
          /\ IsSome(parse_f32(Unwrap(frame.changes)[i][2]))
          /\ IsSome(parse_f32(Unwrap(frame.changes)[i][3]))

WellFormedMatch(frame) ==
    /\ IsSome(timestamp_millis(frame.time, 6))
    /\ IsSome(parse_f32(Unwrap(frame.price)))
    /\ IsSome(parse_f32(Unwrap(frame.size)))

\* C35: for a GDAX match or last_match frame the adapter publishes a single
\* delta with kind TRADE, side BID when side is "buy" and ASK otherwise, and
\* seq equal to the envelope's sequence value, for every sequence value the
\* exchange can send.
C35_GdaxMatch ==
    (/\ input.kind = "gdax"
     /\ input.type \in {"match", "last_match"}
     /\ output.done
     /\ WellFormedMatch(input))
        => /\ ~output.panic
           /\ output.published
           /\ Len(output.value) = 1
           /\ output.value[1].event =
                  (IF Unwrap(input.side) = "buy" THEN BID ELSE ASK) + TRADE
           /\ [hi |-> 0, lo |-> output.value[1].seq] = Unwrap(input.sequence)

====
